---- MODULE Spec2Model ----
(***************************************************************************)
(* A model of arkman's configuration engine: the primitive classifier      *)
(* (ArkConfigSection._parse_value), the duplicate-key folding section      *)
(* (ArkConfigSection.__setitem__), and the document operations of          *)
(* ArkConfig (read, dump, merge, to_dict, from_dict, _expand_env_vars).    *)
(*                                                                         *)
(* Text is a sequence of one-character strings.  A Python value is a       *)
(* record [t |-> type tag, v |-> payload]; a list is a reference into the  *)
(* heap of list objects, because the code stores and extends lists in      *)
(* place.                                                                  *)
(***************************************************************************)
EXTENDS Integers, Sequences, FiniteSets, TLC

VARIABLES
    value,      \* classifier: the raw token handed to _parse_value
    parsed,     \* classifier: _parse_value(value)
    rendered,   \* classifier: the text dump writes for parsed
    reparsed,   \* classifier: _parse_value(rendered)
    cpc,        \* classifier: position ("start", "parsed", "rendered", "done")
    heap,       \* the list objects: heap[r] is the content of list object r
    data,       \* one ArkConfigSection's data: ordered <<key, value>> pairs
    calls,      \* the __setitem__ calls made on data, in order, with outcome
    docs,       \* the ArkConfig documents by name: ordered <<section, data>> pairs
    mpc,        \* merge scenario: position and outcome of merge
    posts,      \* merge scenario: number of sets made on the merged document
    lines,      \* read: the lines still to be processed
    section_name, \* read: the current section name, or None
    rpc,        \* read: position ("open", "reading", "done", "error")
    stored,     \* read: per pass that changed the document, the lines then unread
    text,       \* read: the text of the file
    dumped      \* read: the text dump produced, or None

classVars == <<value, parsed, rendered, reparsed, cpc>>
secVars   == <<data, calls>>
docVars   == <<docs, mpc, posts>>
readVars  == <<lines, section_name, rpc, stored, text, dumped>>
vars == <<value, parsed, rendered, reparsed, cpc, heap, data, calls, docs,
          mpc, posts, lines, section_name, rpc, stored, text, dumped>>

(***************************************************************************)
(* Bounds of the model.                                                    *)
(***************************************************************************)
MaxLen == 4          \* classifier: longest token over the general alphabet
MaxNumLen == 7       \* classifier: longest token over the numeric alphabet
MaxSets == 3         \* section: number of __setitem__ calls
MaxBuild == 2        \* merge: sets used to build each operand
MaxPosts == 1        \* merge: sets made on the merged document
MaxLines == 4        \* read: lines of the file
MaxOptions == 2      \* round trip: options of the section loaded
MaxItems == 2        \* complex values: longest list given for a list field
MaxServers == 2      \* restart, pull, push, backup: most servers selected
MaxDelay == 10       \* restart: longest delay, in minutes
MaxFiles == 2        \* backup: most files of the remote listing

(***************************************************************************)
(* Python values.                                                          *)
(***************************************************************************)
\* The one element of a singleton set.  Written The({e(x) : x \in {a}}) it
\* evaluates a once and binds x to its value.
The(S) == CHOOSE x \in S : TRUE

None == [t |-> "NoneType", v |-> 0]
BoolV(b) == [t |-> "bool", v |-> b]
IntV(n) == [t |-> "int", v |-> n]
\* A float is kept as its exact decimal value: sign, significant digits
\* (no leading or trailing zero) and the position of the decimal point:
\* 0.d1d2...dn * 10^decpt.  Zero has no digits.  Exact for up to 15
\* significant digits, which the bounds stay below.
FloatV(neg, sig, decpt) == [t |-> "float", v |-> <<neg, sig, decpt>>]
StrV(s) == [t |-> "str", v |-> s]
ListV(r) == [t |-> "list", v |-> r]
DictV(pairs) == [t |-> "dict", v |-> pairs]
CvV(cls, fields) == [t |-> "ComplexValue", v |-> <<cls, fields>>]
TupleV == [t |-> "tuple", v |-> 0]
Raise(exc) == [t |-> "raise", v |-> exc]

(***************************************************************************)
(* Characters.                                                             *)
(***************************************************************************)
Whitespace == {" ", "\t", "\r", "\n"}
Digit == {"0", "1", "2", "3", "4", "5", "6", "7", "8", "9"}
DigitSeq == <<"0", "1", "2", "3", "4", "5", "6", "7", "8", "9">>
UpperSeq == <<"A", "B", "C", "D", "E", "F", "G", "H", "I", "J", "K", "L", "M",
              "N", "O", "P", "Q", "R", "S", "T", "U", "V", "W", "X", "Y", "Z">>
LowerSeq == <<"a", "b", "c", "d", "e", "f", "g", "h", "i", "j", "k", "l", "m",
              "n", "o", "p", "q", "r", "s", "t", "u", "v", "w", "x", "y", "z">>

DigitVal(c) == (CHOOSE i \in 1..10 : DigitSeq[i] = c) - 1

Lower(c) ==
    IF \E i \in 1..26 : UpperSeq[i] = c
    THEN LowerSeq[CHOOSE i \in 1..26 : UpperSeq[i] = c]
    ELSE c

LowerStr(s) == [i \in 1..Len(s) |-> Lower(s[i])]

RECURSIVE LStrip(_)
LStrip(s) ==
    IF s # <<>> /\ Head(s) \in Whitespace THEN LStrip(Tail(s)) ELSE s

RECURSIVE RStrip(_)
RStrip(s) ==
    IF s # <<>> /\ s[Len(s)] \in Whitespace
    THEN RStrip(SubSeq(s, 1, Len(s) - 1))
    ELSE s

Strip(s) == RStrip(LStrip(s))

AllDigits(s) == \A i \in 1..Len(s) : s[i] \in Digit

HasSign(s) == s # <<>> /\ Head(s) \in {"+", "-"}
Unsigned(s) == IF HasSign(s) THEN Tail(s) ELSE s

(***************************************************************************)
(* The three patterns of ArkConfigSection, each anchored at both ends.     *)
(***************************************************************************)
BoolWords == {<<"t", "r", "u", "e">>, <<"f", "a", "l", "s", "e">>}

\* (true|false), IGNORECASE
BOOL_RE(s) == LowerStr(s) \in BoolWords

\* [+-]?\d+
INT_RE(s) == Unsigned(s) # <<>> /\ AllDigits(Unsigned(s))

FLOAT_RE_Mut(s) ==
    LET u == Unsigned(s) IN
    \E k \in 1..Len(u) :
        /\ u[k] = "."
        /\ AllDigits(SubSeq(u, 1, k - 1))
        /\ AllDigits(SubSeq(u, k + 1, Len(u)))

\* [+-]?\d*\.\d+
FLOAT_RE(s) ==
    LET u == Unsigned(s) IN
    \E k \in 1..Len(u) :
        /\ u[k] = "."
        /\ AllDigits(SubSeq(u, 1, k - 1))
        /\ k < Len(u)
        /\ AllDigits(SubSeq(u, k + 1, Len(u)))

(***************************************************************************)
(* The builtins float(), int() and str() on the forms the code hands them. *)
(***************************************************************************)
RECURSIVE DropLeadingZeros(_)
DropLeadingZeros(s) ==
    IF s # <<>> /\ Head(s) = "0" THEN DropLeadingZeros(Tail(s)) ELSE s

RECURSIVE DropTrailingZeros(_)
DropTrailingZeros(s) ==
    IF s # <<>> /\ s[Len(s)] = "0"
    THEN DropTrailingZeros(SubSeq(s, 1, Len(s) - 1))
    ELSE s

DotAt(u) == IF \E k \in 1..Len(u) : u[k] = "."
            THEN CHOOSE k \in 1..Len(u) : u[k] = "."
            ELSE Len(u) + 1

\* float(s) for a decimal literal without exponent: sign, digits, at most one
\* dot, at least one digit; anything else in this alphabet is a ValueError.
PyFloat(s) ==
    LET u == Unsigned(s)
        k == DotAt(u)
        ip == SubSeq(u, 1, k - 1)
        fp == SubSeq(u, k + 1, Len(u))
        all == ip \o fp
        nz == DropLeadingZeros(all)
        sig == DropTrailingZeros(nz)
        neg == s # <<>> /\ Head(s) = "-"
    IN  IF all = <<>> \/ ~AllDigits(all)
        THEN Raise("ValueError")
        ELSE IF sig = <<>>
        THEN FloatV(neg, <<>>, 0)
        ELSE FloatV(neg, sig, Len(ip) - (Len(all) - Len(nz)))

RECURSIVE DigitsToNat(_)
DigitsToNat(s) ==
    IF s = <<>> THEN 0
    ELSE 10 * DigitsToNat(SubSeq(s, 1, Len(s) - 1)) + DigitVal(s[Len(s)])

\* int(s) for an optionally signed run of digits.
PyInt(s) ==
    LET u == Unsigned(s) IN
    IF u = <<>> \/ ~AllDigits(u)
    THEN Raise("ValueError")
    ELSE IntV(IF Head(s) = "-" THEN 0 - DigitsToNat(u) ELSE DigitsToNat(u))

RECURSIVE NatToDigits(_)
NatToDigits(n) ==
    IF n < 10 THEN <<DigitSeq[n + 1]>>
    ELSE NatToDigits(n \div 10) \o <<DigitSeq[(n % 10) + 1]>>

IntStr(n) == IF n < 0 THEN <<"-">> \o NatToDigits(0 - n) ELSE NatToDigits(n)

Zeros(n) == [i \in 1..n |-> "0"]

FloatReprNoExp(f) ==
    LET neg == f[1]
        sig == f[2]
        decpt == f[3]
        n == Len(sig)
        sign == IF neg THEN <<"-">> ELSE <<>>
    IN  IF n = 0 THEN sign \o <<"0", ".", "0">>
        ELSE IF decpt <= 0
        THEN sign \o <<"0", ".">> \o Zeros(0 - decpt) \o sig
        ELSE IF decpt >= n
        THEN sign \o sig \o Zeros(decpt - n) \o <<".", "0">>
        ELSE sign \o SubSeq(sig, 1, decpt) \o <<".">> \o SubSeq(sig, decpt + 1, n)

\* repr(float): the shortest digits that round-trip, in fixed notation unless
\* the decimal point lies at or before -4 or beyond 16, then d[.ddd]e+XX.
FloatRepr(f) ==
    LET neg == f[1]
        sig == f[2]
        decpt == f[3]
        n == Len(sig)
        sign == IF neg THEN <<"-">> ELSE <<>>
        exp == decpt - 1
        expAbs == IF exp < 0 THEN 0 - exp ELSE exp
        expDigits == IF expAbs < 10 THEN <<"0">> \o NatToDigits(expAbs)
                     ELSE NatToDigits(expAbs)
    IN  IF n = 0 THEN sign \o <<"0", ".", "0">>
        ELSE IF decpt <= -4 \/ decpt > 16
        THEN sign \o <<sig[1]>>
             \o (IF n > 1 THEN <<".">> \o SubSeq(sig, 2, n) ELSE <<>>)
             \o <<"e">> \o (IF exp < 0 THEN <<"-">> ELSE <<"+">>) \o expDigits
        ELSE FloatReprNoExp(f)

\* str(x), the text an f-string '{key}={value}' writes for a primitive.
PyStr(x) ==
    CASE x.t = "bool" -> IF x.v THEN <<"T", "r", "u", "e">>
                         ELSE <<"F", "a", "l", "s", "e">>
      [] x.t = "int" -> IntStr(x.v)
      [] x.t = "float" -> FloatRepr(x.v)
      [] x.t = "str" -> x.v
      [] x.t = "NoneType" -> <<"N", "o", "n", "e">>
      [] OTHER -> <<"<", x.t, ">">>

(***************************************************************************)
(* ArkConfigSection._parse_value                                           *)
(***************************************************************************)
ParseValue(raw) ==
    LET s == Strip(raw) IN
    IF BOOL_RE(s) THEN BoolV(LowerStr(s) = <<"t", "r", "u", "e">>)
    ELSE IF FLOAT_RE(s) THEN PyFloat(s)
    ELSE IF INT_RE(s) THEN PyInt(s)
    ELSE StrV(s)

IdleSection == /\ heap = <<>> /\ data = <<>> /\ calls = <<>>
IdleDocs == /\ docs = <<>> /\ mpc = "idle" /\ posts = 0
IdleRead == /\ lines = <<>> /\ section_name = None /\ rpc = "idle"
            /\ stored = <<>> /\ text = <<>> /\ dumped = None
IdleClassify == /\ value = <<>> /\ parsed = None /\ rendered = <<>>
                /\ reparsed = None /\ cpc = "idle"


(***************************************************************************)
(* Mappings and complex values.  A mapping is an ordered sequence of        *)
(* <<field, value>> pairs; a dataclass instance is its class name and the  *)
(* values of its fields in declaration order.                              *)
(***************************************************************************)
DictHas(pairs, k) == \E i \in 1..Len(pairs) : pairs[i][1] = k

\* dict.get(k): the value, or None when the key is absent
DictGet(pairs, k) ==
    IF DictHas(pairs, k)
    THEN pairs[CHOOSE i \in 1..Len(pairs) : pairs[i][1] = k][2]
    ELSE None

\* Quantity.from_dict
Quantity_from_dict(d) ==
    CvV("Quantity", <<<<"MaxItemQuantity", DictGet(d, "MaxItemQuantity")>>,
                      <<"bIgnoreMultiplier", DictGet(d, "bIgnoreMultiplier")>>>>)

\* ConfigOverrideItemMaxQuantity.from_dict
ConfigOverrideItemMaxQuantity_from_dict(d) ==
    IF ~DictHas(d, "Quantity") THEN Raise("KeyError")
    ELSE LET quantity == DictGet(d, "Quantity")
             quantity_obj ==
                 IF quantity.t = "dict" THEN Quantity_from_dict(quantity.v)
                 ELSE IF quantity.t = "ComplexValue" /\ quantity.v[1] = "Quantity"
                 THEN quantity
                 ELSE Raise("ValueError")
         IN  IF quantity_obj.t = "raise" THEN quantity_obj
             ELSE CvV("ConfigOverrideItemMaxQuantity",
                      <<<<"ItemClassString", DictGet(d, "ItemClassString")>>,
                        <<"Quantity", quantity_obj>>>>)

\* DinoSpawnWeightMultiplier.from_dict
DinoSpawnWeightMultiplier_from_dict(d) ==
    IF ~DictHas(d, "DinoNameTag") THEN Raise("KeyError")
    ELSE CvV("DinoSpawnWeightMultiplier",
             <<<<"DinoNameTag", DictGet(d, "DinoNameTag")>>,
               <<"SpawnWeightMultiplier", DictGet(d, "SpawnWeightMultiplier")>>,
               <<"OverrideSpawnLimitPercentage",
                 DictGet(d, "OverrideSpawnLimitPercentage")>>,
               <<"SpawnLimitPercentage", DictGet(d, "SpawnLimitPercentage")>>>>)

\* cls(f1=data.get(f1), ...): every declared field read with dict.get
GetFields(cls, names, d) ==
    CvV(cls, [i \in 1..Len(names) |-> <<names[i], DictGet(d, names[i])>>])

\* the same with one field given another value
WithField(x, name, val) ==
    CvV(x.v[1], [i \in 1..Len(x.v[2]) |->
                    IF x.v[2][i][1] = name THEN <<name, val>> ELSE x.v[2][i]])

FieldOf(x, name) == DictGet(x.v[2], name)

IsInstance(x, cls) == x.t = "ComplexValue" /\ x.v[1] = cls

ItemEntry_fields ==
    <<"ItemEntryName", "EntryWeight", "Items", "ItemClassStrings", "ItemsWeights",
      "ItemsMinQuantities", "ItemsMaxQuantities", "GiveRequiresMinimumCharacterLevel",
      "GiveExtraItemQuantityPercentByOwnerCharacterLevel", "MinQuantity",
      "MaxQuantity", "QuantityPower", "MinQuality", "MaxQuality", "QualityPower",
      "bForceBlueprint", "ChanceToBeBlueprintOverride", "ChanceToActuallyGiveItem",
      "RequiresMinQuality", "bActualItemRandomWithoutReplacement">>

\* ItemEntry.from_dict
ItemEntry_from_dict(d) == GetFields("ItemEntry", ItemEntry_fields, d)

\* data.get(name, default)
DictGetOr(pairs, k, default) == IF DictHas(pairs, k) THEN DictGet(pairs, k) ELSE default

\* The elements a for-loop or all() goes through: those of a list, the
\* characters of a string, the keys of a mapping; anything else is not
\* iterable.
Iterate(x) ==
    CASE x.t = "list" -> [exc |-> "none", elems |-> x.v]
      [] x.t = "str" -> [exc |-> "none", elems |-> [i \in 1..Len(x.v) |-> StrV(<<x.v[i]>>)]]
      [] x.t = "dict" -> [exc |-> "none", elems |-> [i \in 1..Len(x.v) |-> StrV(<<x.v[i][1]>>)]]
      [] OTHER -> [exc |-> "TypeError", elems |-> <<>>]

\* The first exception among converted elements, or the list of them.
Collect(conv) ==
    LET bad == {i \in 1..Len(conv) : conv[i].t = "raise"} IN
    IF bad = {} THEN ListV(conv)
    ELSE conv[CHOOSE i \in bad : \A j \in bad : i <= j]

\* if all(isinstance(e, dict) ...): [cls.from_dict(e) ...]
\* elif all(isinstance(e, cls) ...): the list given
\* else: raise ValueError
RECURSIVE from_dict(_, _)
ConvertList(x, cls) ==
    The({IF it.exc # "none" THEN Raise(it.exc)
         ELSE IF \A i \in 1..Len(it.elems) : it.elems[i].t = "dict"
         THEN Collect([i \in 1..Len(it.elems) |-> from_dict(cls, it.elems[i].v)])
         ELSE IF \A i \in 1..Len(it.elems) : IsInstance(it.elems[i], cls)
         THEN x
         ELSE Raise("ValueError") :
            it \in {Iterate(x)}})

\* objs if objs else None
OrNone(x) == IF x.t = "list" /\ x.v = <<>> THEN None ELSE x

ItemSet_fields ==
    <<"SetName", "ItemEntries", "SetWeight", "MinNumItems", "MaxNumItems",
      "NumItemsPower", "bItemsRandomWithoutReplacement">>

\* ItemSet.from_dict
ItemSet_from_dict(d) ==
    The({IF objs.t = "raise" THEN objs
         ELSE WithField(GetFields("ItemSet", ItemSet_fields, d),
                        "ItemEntries", OrNone(objs)) :
            objs \in {ConvertList(DictGetOr(d, "ItemEntries", ListV(<<>>)),
                                  "ItemEntry")}})

ConfigOverrideSupplyCrateItems_fields ==
    <<"SupplyCrateClassString", "MinItemSets", "MaxItemSets", "NumItemSetsPower",
      "bSetsRandomWithoutReplacement", "ItemSets", "bAppendItemSets",
      "bAppendPreventIncreasingMinMaxItemSets">>

\* ConfigOverrideSupplyCrateItems.from_dict
ConfigOverrideSupplyCrateItems_from_dict(d) ==
    The({IF objs.t = "raise" THEN objs
         ELSE WithField(GetFields("ConfigOverrideSupplyCrateItems",
                                  ConfigOverrideSupplyCrateItems_fields, d),
                        "ItemSets", OrNone(objs)) :
            objs \in {ConvertList(DictGetOr(d, "ItemSets", ListV(<<>>)),
                                  "ItemSet")}})

ZeroFloat == FloatV(FALSE, <<>>, 0)
OneFloat == FloatV(FALSE, <<"1">>, 1)

\* NPCsSpawnOffset.from_dict
NPCsSpawnOffset_from_dict(d) ==
    CvV("NPCsSpawnOffset", <<<<"X", DictGetOr(d, "X", ZeroFloat)>>,
                             <<"Y", DictGetOr(d, "Y", ZeroFloat)>>,
                             <<"Z", DictGetOr(d, "Z", ZeroFloat)>>>>)

\* NPCDifficultyLevelRange.from_dict
NPCDifficultyLevelRange_from_dict(d) ==
    CvV("NPCDifficultyLevelRange",
        <<<<"EnemyLevelsMin", DictGetOr(d, "EnemyLevelsMin", ListV(<<>>))>>,
          <<"EnemyLevelsMax", DictGetOr(d, "EnemyLevelsMax", ListV(<<>>))>>,
          <<"GameDifficulties", DictGetOr(d, "GameDifficulties", ListV(<<>>))>>>>)

NPCSpawnEntry_fields ==
    <<"AnEntryName", "NPCsToSpawnStrings", "NPCsSpawnOffsets",
      "NPCsToSpawnPercentageChance", "EntryWeight", "ManualSpawnPointSpreadRadius",
      "NPCDifficultyLevelRanges", "RandGroupSpawnOffsetZMin",
      "RandGroupSpawnOffsetZMax", "NPCOverrideLevel", "NPCMinLevelOffset",
      "NPCMaxLevelOffset", "NPCMinLevelMultiplier", "NPCMaxLevelMultiplier",
      "bAddLevelOffsetBeforeMultiplier">>

\* NPCSpawnEntry.from_dict
NPCSpawnEntry_from_dict(d) ==
    The({IF offs.t = "raise" THEN offs
         ELSE The({IF rngs.t = "raise" THEN rngs
                   ELSE WithField(WithField(
                            GetFields("NPCSpawnEntry", NPCSpawnEntry_fields, d),
                            "NPCsSpawnOffsets", offs),
                            "NPCDifficultyLevelRanges", rngs) :
                rngs \in {ConvertList(
                            DictGetOr(d, "NPCDifficultyLevelRanges", ListV(<<>>)),
                            "NPCDifficultyLevelRange")}}) :
            offs \in {ConvertList(DictGetOr(d, "NPCsSpawnOffsets", ListV(<<>>)),
                                  "NPCsSpawnOffset")}})

\* NPCSpawnLimit.from_dict
NPCSpawnLimit_from_dict(d) ==
    GetFields("NPCSpawnLimit", <<"NPCClassString", "MaxPercentageOfDesiredNumToAllow">>, d)

\* ConfigAddNPCSpawnEntriesContainer.from_dict
ConfigAddNPCSpawnEntriesContainer_from_dict(d) ==
    The({IF ents.t = "raise" THEN ents
         ELSE The({IF lims.t = "raise" THEN lims
                   ELSE CvV("ConfigAddNPCSpawnEntriesContainer",
                            <<<<"NPCSpawnEntriesContainerClassString",
                                DictGet(d, "NPCSpawnEntriesContainerClassString")>>,
                              <<"NPCSpawnEntries", ents>>,
                              <<"NPCSpawnLimits", lims>>>>) :
                lims \in {ConvertList(DictGetOr(d, "NPCSpawnLimits", ListV(<<>>)),
                                      "NPCSpawnLimit")}}) :
            ents \in {ConvertList(DictGetOr(d, "NPCSpawnEntries", ListV(<<>>)),
                                  "NPCSpawnEntry")}})

\* cls.from_dict(d) for a class by name
from_dict(cls, d) ==
    CASE cls = "ConfigOverrideItemMaxQuantity" ->
            ConfigOverrideItemMaxQuantity_from_dict(d)
      [] cls = "DinoSpawnWeightMultiplier" ->
            DinoSpawnWeightMultiplier_from_dict(d)
      [] cls = "ConfigOverrideSupplyCrateItems" ->
            ConfigOverrideSupplyCrateItems_from_dict(d)
      [] cls = "ConfigAddNPCSpawnEntriesContainer" ->
            ConfigAddNPCSpawnEntriesContainer_from_dict(d)
      [] cls = "Quantity" -> Quantity_from_dict(d)
      [] cls = "ItemEntry" -> ItemEntry_from_dict(d)
      [] cls = "ItemSet" -> ItemSet_from_dict(d)
      [] cls = "NPCsSpawnOffset" -> NPCsSpawnOffset_from_dict(d)
      [] cls = "NPCDifficultyLevelRange" -> NPCDifficultyLevelRange_from_dict(d)
      [] cls = "NPCSpawnEntry" -> NPCSpawnEntry_from_dict(d)
      [] cls = "NPCSpawnLimit" -> NPCSpawnLimit_from_dict(d)

(***************************************************************************)
(* ArkConfigSection.  A key is a sequence of symbols: single characters,   *)
(* or a whole identifier kept as one symbol.                               *)
(***************************************************************************)
ALLOWED_TYPES == {"str", "int", "float", "bool", "dict", "ComplexValue"}

COMPLEX_VALUE_MAP ==
    <<"ConfigOverrideSupplyCrateItems">> :> "ConfigOverrideSupplyCrateItems"
    @@ <<"ConfigOverrideItemMaxQuantity">> :> "ConfigOverrideItemMaxQuantity"
    @@ <<"ConfigAddNPCSpawnEntriesContainer">> :> "ConfigAddNPCSpawnEntriesContainer"
    @@ <<"DinoSpawnWeightMultiplier">> :> "DinoSpawnWeightMultiplier"

IsAllowed_NoneOk(h, item) ==
    \/ item.t \in ALLOWED_TYPES \cup {"NoneType"}
    \/ /\ item.t = "list"
       /\ \A i \in 1..Len(h[item.v]) : h[item.v][i].t \in ALLOWED_TYPES

\* is_allowed_type or is_allowed_list
IsAllowed(h, item) ==
    \/ item.t \in ALLOWED_TYPES
    \/ /\ item.t = "list"
       /\ \A i \in 1..Len(h[item.v]) : h[item.v][i].t \in ALLOWED_TYPES

KeyIndex(d, key) ==
    IF \E i \in 1..Len(d) : d[i][1] = key
    THEN CHOOSE i \in 1..Len(d) : d[i][1] = key
    ELSE 0

ComplexItem_KeepDicts(key, elems) ==
    LET conv == [i \in 1..Len(elems) |->
                    IF elems[i].t \in {"str", "ComplexValue", "dict"} THEN elems[i]
                    ELSE Raise("ValueError")]
        bad == {i \in 1..Len(elems) : conv[i].t = "raise"}
    IN  IF bad = {} THEN [exc |-> "none", elems |-> conv]
        ELSE [exc |-> "ValueError", elems |-> <<>>]

\* The loop that builds complex_item: the first element that cannot be
\* converted raises.
ComplexItem(key, elems) ==
    LET cls == COMPLEX_VALUE_MAP[key]
        conv == [i \in 1..Len(elems) |->
                    IF elems[i].t \in {"str", "ComplexValue"} THEN elems[i]
                    ELSE IF elems[i].t = "dict" THEN from_dict(cls, elems[i].v)
                    ELSE Raise("ValueError")]
        bad == {i \in 1..Len(elems) : conv[i].t = "raise"}
    IN  IF bad = {} THEN [exc |-> "none", elems |-> conv]
        ELSE [exc |-> conv[CHOOSE i \in bad : \A j \in bad : i <= j].v,
              elems |-> <<>>]

\* The value __setitem__ goes on to store: a list under a registered key is
\* rebuilt element by element into a new list, a string is classified, and
\* anything else is taken as it is.
Normalise(h, key, item) ==
    IF item.t = "list" /\ key \in DOMAIN COMPLEX_VALUE_MAP
    THEN The({IF c.exc # "none" THEN [exc |-> c.exc, item |-> item, heap |-> h]
              ELSE [exc |-> "none", item |-> ListV(Len(h) + 1),
                    heap |-> Append(h, c.elems)] :
                c \in {ComplexItem(key, h[item.v])}})
    ELSE IF item.t = "str"
    THEN [exc |-> "none", item |-> ParseValue(item.v), heap |-> h]
    ELSE [exc |-> "none", item |-> item, heap |-> h]

\* The folding of __setitem__: an existing list is extended in place, an
\* existing scalar is replaced by a new list that starts with it, a new key
\* is added after the keys already there.
Fold(d, h, key, item) ==
    LET i == KeyIndex(d, key)
        more == IF item.t = "list" THEN h[item.v] ELSE <<item>>
    IN  IF i = 0 THEN [data |-> Append(d, <<key, item>>), heap |-> h]
        ELSE IF d[i][2].t = "list"
        THEN [data |-> d, heap |-> [h EXCEPT ![d[i][2].v] = @ \o more]]
        ELSE [data |-> [d EXCEPT ![i] = <<key, ListV(Len(h) + 1)>>],
              heap |-> Append(h, <<d[i][2]>> \o more)]

\* What __setitem__ returns or raises once the value n is ready to store.
Store(d, h, key, item, n) ==
    IF n.exc # "none"
    THEN [exc |-> n.exc, msg |-> <<>>, data |-> d, heap |-> h, item |-> item]
    ELSE The({[exc |-> "none", msg |-> <<>>, data |-> f.data, heap |-> f.heap,
               item |-> n.item] : f \in {Fold(d, n.heap, key, n.item)}})

\* ArkConfigSection.__setitem__(key, item) on the section data d with the
\* list objects h: the exception raised ("none" when it returns) and what its
\* message names (the type of item and the key), the data and the list
\* objects afterwards, and the value it went on to store.
SetItem(d, h, key, item) ==
    IF ~IsAllowed(h, item)
    THEN [exc |-> "TypeError", msg |-> <<item.t, key>>,
          data |-> d, heap |-> h, item |-> item]
    ELSE The({Store(d, h, key, item, n) : n \in {Normalise(h, key, item)}})

\* A value with the content of the list it refers to in place of the
\* reference: what == compares.
Deref(h, x) == IF x.t = "list" THEN ListV(h[x.v]) ELSE x

\* section.items() by value
Items(d, h) == [i \in 1..Len(d) |-> <<d[i][1], Deref(h, d[i][2])>>]

(***************************************************************************)
(* One section under a sequence of set operations.  An argument that is a  *)
(* list is a list object the caller has just built, or one of the list     *)
(* objects already there.                                                  *)
(***************************************************************************)
KeyA == <<"A">>
KeyB == <<"B">>
KeyQ == <<"ConfigOverrideItemMaxQuantity">>

QuantityDict ==
    DictV(<<<<"MaxItemQuantity", IntV(5)>>, <<"bIgnoreMultiplier", BoolV(TRUE)>>>>)
OverrideDict ==
    DictV(<<<<"ItemClassString", StrV(<<"S">>)>>, <<"Quantity", QuantityDict>>>>)
NoQuantityDict == DictV(<<<<"ItemClassString", StrV(<<"S">>)>>>>)

KeyC == <<"ConfigOverrideSupplyCrateItems">>
KeyN == <<"ConfigAddNPCSpawnEntriesContainer">>
KeyD == <<"DinoSpawnWeightMultiplier">>

OverrideInst == ConfigOverrideItemMaxQuantity_from_dict(OverrideDict.v)
DinoDict == DictV(<<<<"DinoNameTag", StrV(<<"D">>)>>, <<"SpawnWeightMultiplier", IntV(2)>>>>)
EntryDict == DictV(<<<<"ItemEntryName", StrV(<<"E">>)>>,
                     <<"Items", ListV(<<StrV(<<"I">>)>>)>>>>)
SetDict == DictV(<<<<"SetName", StrV(<<"S">>)>>, <<"ItemEntries", ListV(<<EntryDict>>)>>>>)
CrateDict == DictV(<<<<"SupplyCrateClassString", StrV(<<"C">>)>>,
                     <<"ItemSets", ListV(<<SetDict>>)>>>>)
MixedCrateDict ==
    DictV(<<<<"ItemSets", ListV(<<SetDict, ItemSet_from_dict(SetDict.v)>>)>>>>)
OffsetDict == DictV(<<<<"X", FloatV(FALSE, <<"1">>, 1)>>>>)
SpawnEntryDict == DictV(<<<<"AnEntryName", StrV(<<"N">>)>>,
                          <<"NPCsSpawnOffsets", ListV(<<OffsetDict>>)>>>>)
LimitDict == DictV(<<<<"NPCClassString", StrV(<<"L">>)>>>>)
ContainerDict == DictV(<<<<"NPCSpawnEntriesContainerClassString", StrV(<<"C">>)>>,
                         <<"NPCSpawnEntries", ListV(<<SpawnEntryDict>>)>>,
                         <<"NPCSpawnLimits", ListV(<<LimitDict>>)>>>>)
NullEntriesDict == DictV(<<<<"NPCSpawnEntries", None>>>>)

\* The arguments tried under each key; a list is given by its elements.
ArgsFor(key) ==
    CASE key = KeyA ->
            {StrV(<<"1">>), StrV(<<"2">>), StrV(<<" ", "x">>),
             ListV(<<IntV(3), StrV(<<"4">>)>>), ListV(<<>>),
             None, ListV(<<None>>)}
      [] key = KeyB ->
            {StrV(<<"1">>), ListV(<<IntV(3), StrV(<<"4">>)>>), TupleV, BoolV(TRUE)}
      [] key = KeyQ ->
            {ListV(<<OverrideDict>>), ListV(<<OverrideDict, NoQuantityDict>>),
             ListV(<<IntV(3)>>), OverrideDict}
      [] key = KeyC ->
            {ListV(<<CrateDict>>), ListV(<<CrateDict, MixedCrateDict>>)}
      [] key = KeyN ->
            {ListV(<<ContainerDict, StrV(<<"1">>)>>), ListV(<<NullEntriesDict>>)}
      [] key = KeyD ->
            {ListV(<<StrV(<<"1">>), OverrideInst, DinoDict>>),
             ListV(<<DinoDict, DictV(<<>>)>>), ListV(<<DinoDict, BoolV(TRUE)>>)}

Keys == {KeyA, KeyB, KeyQ}

\* The heap and the argument once the caller has built its list.
CallerHeap(h, arg) == IF arg.t = "list" THEN Append(h, arg.v) ELSE h
CallerItem(h, arg) == IF arg.t = "list" THEN ListV(Len(h) + 1) ELSE arg

InitSection ==
    /\ heap = <<>> /\ data = <<>> /\ calls = <<>>
    /\ IdleClassify /\ IdleDocs /\ IdleRead

Set(key, arg) ==
    /\ Len(calls) < MaxSets
    /\ \E r \in {SetItem(data, CallerHeap(heap, arg), key, CallerItem(heap, arg))} :
           /\ data' = r.data
           /\ heap' = IF r.exc = "none" THEN r.heap ELSE heap
           /\ calls' = Append(calls,
                  [key |-> key, arg |-> arg, exc |-> r.exc, msg |-> r.msg,
                   item |-> Deref(r.heap, r.item),
                   before |-> Items(data, heap)])
    /\ UNCHANGED <<classVars, docVars, readVars>>

\* section[key] = l for a list object l that is already there: one the
\* caller passed before, or one read from the section
SetSame(key, l) ==
    /\ Len(calls) < MaxSets
    /\ l <= Len(heap)
    /\ \E r \in {SetItem(data, heap, key, ListV(l))} :
           /\ data' = r.data
           /\ heap' = IF r.exc = "none" THEN r.heap ELSE heap
           /\ calls' = Append(calls,
                  [key |-> key, arg |-> ListV(heap[l]), exc |-> r.exc, msg |-> r.msg,
                   item |-> IF r.item = ListV(l) THEN ListV(heap[l])
                            ELSE Deref(r.heap, r.item),
                   before |-> Items(data, heap)])
    /\ UNCHANGED <<classVars, docVars, readVars>>

NextSection ==
    \/ \E key \in Keys : \E arg \in ArgsFor(key) : Set(key, arg)
    \/ \E key \in Keys : \E l \in 1..(2 * MaxSets) : SetSame(key, l)

Spec == InitSection /\ [][NextSection]_vars

(***************************************************************************)
(* The same section with sets under the registered keys only.              *)
(***************************************************************************)
NextComplexSet ==
    \E key \in DOMAIN COMPLEX_VALUE_MAP : \E arg \in ArgsFor(key) : Set(key, arg)

SpecComplexSet == InitSection /\ [][NextComplexSet]_vars

\* An element the conversion of a list under a registered key cannot take:
\* neither string, nor ComplexValue, nor a mapping from_dict accepts.
FailsConversion(key, x) ==
    IF x.t = "dict" THEN from_dict(COMPLEX_VALUE_MAP[key], x.v).t = "raise"
    ELSE x.t \notin {"str", "ComplexValue"}

\* C11: a list set under a registered key is stored element by element, in
\* order and in full: a mapping as the instance of the registered class that
\* from_dict builds, an instance or a string as it is; when an element
\* cannot be converted the call raises and the section is as it was.
C11_ComplexListConverted ==
    calls # <<>> =>
        \A c \in {calls[Len(calls)]} :
        (c.key \in DOMAIN COMPLEX_VALUE_MAP /\ c.arg.t = "list") =>
            IF \E i \in 1..Len(c.arg.v) : FailsConversion(c.key, c.arg.v[i])
            THEN c.exc # "none" /\ Items(data, heap) = c.before
            ELSE /\ c.exc = "none"
                 /\ c.item.t = "list" /\ Len(c.item.v) = Len(c.arg.v)
                 /\ \A i \in 1..Len(c.arg.v) :
                      IF c.arg.v[i].t = "dict"
                      THEN /\ IsInstance(c.item.v[i], COMPLEX_VALUE_MAP[c.key])
                           /\ c.item.v[i] = from_dict(COMPLEX_VALUE_MAP[c.key], c.arg.v[i].v)
                      ELSE c.item.v[i] = c.arg.v[i]
                 /\ \A now \in {Items(data, heap)} :
                    \A k \in {KeyIndex(data, c.key)} :
                      /\ k # 0 /\ now[k][2].t = "list"
                      /\ Len(now[k][2].v) >= Len(c.item.v)
                      /\ SubSeq(now[k][2].v, Len(now[k][2].v) - Len(c.item.v) + 1,
                                Len(now[k][2].v)) = c.item.v

\* a list of a string, an instance and a mapping has been stored under a
\* registered key after an earlier list, and a failing list was rejected
C11_Witness ==
    /\ Len(calls) = 3
    /\ calls[1].key = KeyD /\ calls[1].exc = "none"
    /\ calls[2].key = KeyD /\ calls[2].exc = "KeyError"
    /\ calls[3].key = KeyD /\ calls[3].exc = "none"
    /\ calls[3].arg = ListV(<<StrV(<<"1">>), OverrideInst, DinoDict>>)
    /\ Len(Items(data, heap)[1][2].v) = 6


SetsOf(cs, k) ==
    LET Test(c) == c.key = k /\ c.exc = "none" IN SelectSeq(cs, Test)

Contribution(c) == IF c.item.t = "list" THEN c.item.v ELSE <<c.item>>

RECURSIVE Concatenation(_)
Concatenation(cs) ==
    IF cs = <<>> THEN <<>>
    ELSE Contribution(Head(cs)) \o Concatenation(Tail(cs))

RECURSIVE FirstSetOrder(_)
FirstSetOrder(cs) ==
    IF cs = <<>> THEN <<>>
    ELSE LET rest == FirstSetOrder(SubSeq(cs, 1, Len(cs) - 1))
             c == cs[Len(cs)]
         IN  IF c.exc = "none" /\ \A i \in 1..Len(rest) : rest[i] # c.key
             THEN Append(rest, c.key)
             ELSE rest

Elements(x) == IF x.t = "list" THEN x.v ELSE <<x>>

IsPrefix(a, b) == Len(a) <= Len(b) /\ SubSeq(b, 1, Len(a)) = a

\* C1: a key set once holds the value set (classified); a key set more than
\* once holds the list of everything set under it, in call order, a list
\* contributing its elements and a scalar itself; a set keeps every element
\* stored before it, in place, and items() lists the keys in the order of
\* their first set; set('A','1') then set('A','2') gives A == [1, 2].
C1_DuplicateKeysFold ==
    LET now == Items(data, heap) IN
    /\ [i \in 1..Len(now) |-> now[i][1]] = FirstSetOrder(calls)
    /\ \A k \in Keys :
        LET sets == SetsOf(calls, k)
            i == KeyIndex(data, k)
        IN  /\ (sets = <<>>) = (i = 0)
            /\ Len(sets) = 1 => now[i][2] = sets[1].item
            /\ Len(sets) > 1 => now[i][2] = ListV(Concatenation(sets))
    /\ calls # <<>> =>
        LET before == calls[Len(calls)].before IN
        /\ Len(before) <= Len(now)
        /\ \A i \in 1..Len(before) :
            /\ now[i][1] = before[i][1]
            /\ IsPrefix(Elements(before[i][2]), Elements(now[i][2]))
    /\ (/\ Len(calls) = 2
        /\ \A i \in 1..2 : calls[i].key = KeyA
        /\ calls[1].arg = StrV(<<"1">>) /\ calls[2].arg = StrV(<<"2">>))
       => now = <<<<KeyA, ListV(<<IntV(1), IntV(2)>>)>>>>

\* The values the specification lets set accept, for an argument given by
\* value.
Acceptable(arg) ==
    LET T == {"str", "int", "float", "bool", "dict", "ComplexValue"} IN
    \/ arg.t \in T
    \/ arg.t = "list" /\ \A i \in 1..Len(arg.v) : arg.v[i].t \in T

\* C10: set with a value that is none of str, int, float, bool, mapping,
\* ComplexValue, nor a list of those, raises a TypeError whose message names
\* the key and the type of the value, and the section's keys, their order
\* and every stored value are as they were before the call.
C10_RejectedSetLeavesSection ==
    calls # <<>> =>
        LET c == calls[Len(calls)] IN
        ~Acceptable(c.arg) =>
            /\ c.exc = "TypeError"
            /\ c.msg = <<c.arg.t, c.key>>
            /\ Items(data, heap) = c.before

C10_Witness ==
    /\ Len(calls) = 3
    /\ calls[1].exc = "none" /\ calls[2].exc = "none"
    /\ calls[2].key = KeyA /\ calls[1].key = KeyA
    /\ calls[3].key = KeyA /\ calls[3].arg = ListV(<<None>>)
    /\ calls[3].exc = "TypeError"
    /\ Len(Items(data, heap)[1][2].v) > 1

(***************************************************************************)
(* ArkConfig.  A document is its encoding and its ordered                  *)
(* <<section name, section data>> pairs (_config).                         *)
(***************************************************************************)
ArkConfig(encoding) == [encoding |-> encoding, config |-> <<>>]

section_names(doc) == [i \in 1..Len(doc.config) |-> doc.config[i][1]]

SectionIndex(doc, name) == KeyIndex(doc.config, name)

\* defaultdict(ArkConfigSection): a missing section is created empty
DefaultSection(config, name) ==
    IF KeyIndex(config, name) = 0 THEN Append(config, <<name, <<>>>>) ELSE config

\* self._config[section_name][option] = value: the defaultdict creates the
\* section when it is missing, then the section's __setitem__ runs.
SetOption(doc, h, name, option, item) ==
    The({The({[exc |-> r.exc, heap |-> r.heap,
               doc |-> [doc EXCEPT !.config =
                          [cfg EXCEPT ![KeyIndex(cfg, name)] = <<name, r.data>>]]] :
                 r \in {SetItem(cfg[KeyIndex(cfg, name)][2], h, option, item)}}) :
           cfg \in {DefaultSection(doc.config, name)}})

\* ArkConfigSection(mapping): UserDict.__init__ sets the pairs one by one,
\* in order, on an empty section; the first set that raises ends it.
RECURSIVE SectionFrom(_, _, _)
SectionFrom(pairs, h, d) ==
    IF pairs = <<>> THEN [exc |-> "none", data |-> d, heap |-> h]
    ELSE The({IF r.exc # "none" THEN [exc |-> r.exc, data |-> d, heap |-> h]
              ELSE SectionFrom(Tail(pairs), r.heap, r.data) :
                r \in {SetItem(d, h, Head(pairs)[1], Head(pairs)[2])}})

\* a.data | b.data: the keys of a in their order with b's value where b has
\* the key, then the keys only b has, in b's order.
DictUnion(a, b) ==
    LET Fresh(p) == KeyIndex(a, p[1]) = 0 IN
    [i \in 1..Len(a) |->
        IF KeyIndex(b, a[i][1]) = 0 THEN a[i] ELSE b[KeyIndex(b, a[i][1])]]
    \o SelectSeq(b, Fresh)

\* ArkConfig.__getitem__ raises KeyError for a section that is missing.
GetSection(doc, name) ==
    IF SectionIndex(doc, name) = 0 THEN Raise("KeyError")
    ELSE [t |-> "section", v |-> doc.config[SectionIndex(doc, name)][2]]

\* The loop of merge over the section names: merged[name] = self[name] |
\* other[name], ended by the first exception.
\* self[name] | other[name]: a new section made from the union of the two
\* sections' data
OrSections(self, other, name, h) ==
    The({IF ab[1].t = "raise" THEN [exc |-> ab[1].v, data |-> <<>>, heap |-> h]
         ELSE IF ab[2].t = "raise" THEN [exc |-> ab[2].v, data |-> <<>>, heap |-> h]
         ELSE SectionFrom(DictUnion(ab[1].v, ab[2].v), h, <<>>) :
           ab \in {<<GetSection(self, name), GetSection(other, name)>>}})

RECURSIVE MergeLoop(_, _, _, _, _)
MergeLoop(names, self, other, h, merged) ==
    IF names = <<>> THEN [exc |-> "none", doc |-> merged, heap |-> h]
    ELSE The({IF r.exc # "none" THEN [exc |-> r.exc, doc |-> merged, heap |-> h]
              ELSE MergeLoop(Tail(names), self, other, r.heap,
                     [merged EXCEPT !.config = Append(@, <<Head(names), r.data>>)]) :
                r \in {OrSections(self, other, Head(names), h)}})

\* ArkConfig.merge
Merge(self, other, h) ==
    LET encoding == IF other.encoding # None THEN other.encoding ELSE self.encoding
        OnlyOther(n) == SectionIndex(self, n) = 0
        names == section_names(self) \o SelectSeq(section_names(other), OnlyOther)
    IN  MergeLoop(names, self, other, h, ArkConfig(encoding))

(***************************************************************************)
(* ArkConfig._expand_env_vars                                              *)
(***************************************************************************)
IdentStart == {UpperSeq[i] : i \in 1..26} \cup {LowerSeq[i] : i \in 1..26} \cup {"_"}
IdentChar == IdentStart \cup Digit

\* ENV_RE.match(s): '${', a name, '}' at the start of s; the text after the
\* closing brace is not looked at.  The name matched, or <<>> for no match.
EnvName(s) ==
    IF /\ Len(s) >= 4 /\ s[1] = "$" /\ s[2] = "{" /\ s[3] \in IdentStart
       /\ \E k \in 4..Len(s) :
            s[k] = "}" /\ \A j \in 4..(k - 1) : s[j] \in IdentChar
    THEN SubSeq(s, 3, (CHOOSE k \in 4..Len(s) :
            s[k] = "}" /\ \A j \in 4..(k - 1) : s[j] \in IdentChar) - 1)
    ELSE <<>>

\* The process environment of the run.
Environ == <<"X">> :> <<"5">>

\* environ.get(name, '')
EnvGet(name) == IF name \in DOMAIN Environ THEN Environ[name] ELSE <<>>

\* What _expand_env_vars leaves under a key: the environment's text, as a
\* string, for a string value that starts with a placeholder.
ExpandValue(x) ==
    IF x.t = "str" /\ EnvName(Strip(x.v)) # <<>>
    THEN StrV(EnvGet(EnvName(Strip(x.v))))
    ELSE x

ExpandEnvVars(doc) ==
    [doc EXCEPT !.config =
        [i \in 1..Len(@) |->
            <<@[i][1], [j \in 1..Len(@[i][2]) |->
                          <<@[i][2][j][1], ExpandValue(@[i][2][j][2])>>]>>]]

\* The document by value: names, keys and values in order.
View(doc, h) ==
    [i \in 1..Len(doc.config) |-> <<doc.config[i][1], Items(doc.config[i][2], h)>>]

(***************************************************************************)
(* Merge: base and patch are built option by option, the way read and      *)
(* from_dict fill a document, optionally get their placeholders expanded   *)
(* as from_yaml does, and are merged; then options are set on the result.  *)
(***************************************************************************)
SecS == <<"S">>
SecT == <<"T">>
KeyK == <<"K">>
KeyL == <<"L">>
Placeholder == <<"$", "{", "X", "}">>
UndefinedPlaceholder == <<"$", "{", "Y", "}">>

BuildChoices ==
    ({SecS} \X {KeyK, KeyL}
        \X {StrV(<<"1">>), ListV(<<IntV(3)>>), StrV(Placeholder)})
    \cup {<<SecT, KeyK, StrV(<<"1">>)>>}

PostChoices == {SecS, SecT} \X {KeyK, KeyL} \X {StrV(<<"9">>)}

InitMerge ==
    /\ heap = <<>>
    /\ docs = [base |-> ArkConfig(StrV(<<"utf-8">>)), patch |-> ArkConfig(None),
               merged |-> None, nsets |-> 0,
               baseThen |-> <<>>, patchThen |-> <<>>]
    /\ mpc = "base"
    /\ posts = 0
    /\ data = <<>> /\ calls = <<>>
    /\ IdleClassify /\ IdleRead

\* config._config[section][option] = value on the operand being built
Build(c) ==
    /\ mpc \in {"base", "patch"}
    /\ docs.nsets < MaxBuild
    /\ \E r \in {SetOption(docs[mpc], CallerHeap(heap, c[3]), c[1], c[2],
                           CallerItem(heap, c[3]))} :
           /\ r.exc = "none"
           /\ heap' = r.heap
           /\ docs' = [docs EXCEPT ![mpc] = r.doc, !.nsets = @ + 1]
    /\ UNCHANGED <<mpc, posts, data, calls, classVars, readVars>>

\* The operand is complete; expand tells whether it came from from_yaml,
\* which ends with _expand_env_vars.
Built(expand) ==
    /\ mpc \in {"base", "patch"}
    /\ docs' = [docs EXCEPT ![mpc] = IF expand THEN ExpandEnvVars(@) ELSE @,
                            !.nsets = 0]
    /\ mpc' = IF mpc = "base" THEN "patch" ELSE "ready"
    /\ UNCHANGED <<heap, posts, data, calls, classVars, readVars>>

\* merged = base.merge(patch)
DoMerge ==
    /\ mpc = "ready"
    /\ \E r \in {Merge(docs.base, docs.patch, heap)} :
        /\ mpc' = IF r.exc = "none" THEN "merged" ELSE r.exc
        /\ heap' = IF r.exc = "none" THEN r.heap ELSE heap
        /\ docs' = [docs EXCEPT !.merged = IF r.exc = "none" THEN r.doc ELSE None,
                                !.baseThen = View(docs.base, heap),
                                !.patchThen = View(docs.patch, heap)]
    /\ UNCHANGED <<posts, data, calls, classVars, readVars>>

\* merged[section][option] = value
Post(c) ==
    /\ mpc = "merged"
    /\ posts < MaxPosts
    /\ SectionIndex(docs.merged, c[1]) # 0
    /\ \E r \in {SetOption(docs.merged, heap, c[1], c[2], c[3])} :
        /\ r.exc = "none"
        /\ heap' = r.heap
        /\ docs' = [docs EXCEPT !.merged = r.doc]
    /\ posts' = posts + 1
    /\ UNCHANGED <<mpc, data, calls, classVars, readVars>>

NextMerge ==
    \/ \E c \in BuildChoices : Build(c)
    \/ \E expand \in BOOLEAN : Built(expand)
    \/ DoMerge
    \/ \E c \in PostChoices : Post(c)

SpecMerge == InitMerge /\ [][NextMerge]_vars

NameSet(doc) == {doc.config[i][1] : i \in 1..Len(doc.config)}
KeySet(d) == {d[i][1] : i \in 1..Len(d)}
SectionView(doc, h, name) == Items(doc.config[SectionIndex(doc, name)][2], h)
ValueAt(doc, h, name, key) ==
    LET d == doc.config[SectionIndex(doc, name)][2] IN
    Deref(h, d[KeyIndex(d, key)][2])

\* C2: base.merge(patch) succeeds for any two documents; the result's
\* section names are the union of the operands' names, and a section only
\* one operand defines appears in the result with that operand's options.
C2_MergeUnionOfSections ==
    mpc \notin {"base", "patch", "ready"} =>
        /\ mpc = "merged"
        /\ NameSet(docs.merged) = NameSet(docs.base) \cup NameSet(docs.patch)
        /\ \A n \in NameSet(docs.base) \ NameSet(docs.patch) :
             posts = 0 => SectionView(docs.merged, heap, n) = SectionView(docs.base, heap, n)
        /\ \A n \in NameSet(docs.patch) \ NameSet(docs.base) :
             posts = 0 => SectionView(docs.merged, heap, n) = SectionView(docs.patch, heap, n)

\* C3: for a section both operands define, the result's keys are the union
\* of both sections' keys; a key of patch has patch's value (a list is
\* patch's list, not a concatenation) and a key only base has has base's.
C3_MergePatchWins ==
    (mpc = "merged" /\ posts = 0) =>
        \A n \in NameSet(docs.base) \cap NameSet(docs.patch) :
            LET b == docs.base.config[SectionIndex(docs.base, n)][2]
                p == docs.patch.config[SectionIndex(docs.patch, n)][2]
                m == docs.merged.config[SectionIndex(docs.merged, n)][2]
            IN  /\ KeySet(m) = KeySet(b) \cup KeySet(p)
                /\ \A k \in KeySet(p) :
                    ValueAt(docs.merged, heap, n, k) = ValueAt(docs.patch, heap, n, k)
                /\ \A k \in KeySet(b) \ KeySet(p) :
                    ValueAt(docs.merged, heap, n, k) = ValueAt(docs.base, heap, n, k)

\* C4: merge leaves base and patch unchanged, and no set on the result's
\* sections afterwards changes a value stored in base or in patch.
C4_MergeSharesNoState ==
    mpc = "merged" =>
        /\ View(docs.base, heap) = docs.baseThen
        /\ View(docs.patch, heap) = docs.patchThen

(***************************************************************************)
(* from_dict, to_dict and from_yaml.  A nested mapping, as yaml.safe_load  *)
(* returns it and yaml.dump takes it, is written by value: ordered         *)
(* <<section name, <<key, value>> pairs>> pairs, a list by its elements.   *)
(***************************************************************************)
\* The list objects of a mapping's values, as the caller holds them
RECURSIVE LoadPairs(_, _)
LoadPairs(pairs, h) ==
    IF pairs = <<>> THEN [pairs |-> <<>>, heap |-> h]
    ELSE The({[pairs |-> <<<<Head(pairs)[1], CallerItem(h, Head(pairs)[2])>>>>
                          \o rest.pairs,
               heap |-> rest.heap] :
            rest \in {LoadPairs(Tail(pairs), CallerHeap(h, Head(pairs)[2]))}})

\* config[section_name] = ArkConfigSection(section_dict)
AssignSection(doc, name, d) ==
    IF SectionIndex(doc, name) = 0
    THEN [doc EXCEPT !.config = Append(@, <<name, d>>)]
    ELSE [doc EXCEPT !.config[SectionIndex(doc, name)] = <<name, d>>]

\* The loop of ArkConfig.from_dict over the sections of the mapping
RECURSIVE FromDictLoop(_, _, _)
FromDictLoop(secs, h, doc) ==
    IF secs = <<>> THEN [exc |-> "none", doc |-> doc, heap |-> h]
    ELSE The({IF r.exc # "none" THEN [exc |-> r.exc, doc |-> doc, heap |-> h]
              ELSE FromDictLoop(Tail(secs), r.heap,
                                AssignSection(doc, Head(secs)[1], r.data)) :
            r \in {The({SectionFrom(ld.pairs, ld.heap, <<>>) :
                     ld \in {LoadPairs(Head(secs)[2], h)}})}})

\* ArkConfig.from_dict
FromDict(mapping, h) == FromDictLoop(mapping, h, ArkConfig(None))

\* ArkConfig.from_yaml on the mapping safe_load returned
FromYaml(mapping, h) ==
    The({IF r.exc # "none" THEN r
         ELSE [exc |-> "none", doc |-> ExpandEnvVars(r.doc), heap |-> r.heap] :
            r \in {FromDict(mapping, h)}})

\* dataclasses.asdict
RECURSIVE AsDict(_)
AsDict(x) ==
    CASE x.t = "ComplexValue" ->
            DictV([i \in 1..Len(x.v[2]) |-> <<x.v[2][i][1], AsDict(x.v[2][i][2])>>])
      [] x.t = "list" -> ListV([i \in 1..Len(x.v) |-> AsDict(x.v[i])])
      [] x.t = "dict" ->
            DictV([i \in 1..Len(x.v) |-> <<x.v[i][1], AsDict(x.v[i][2])>>])
      [] OTHER -> x

ToDictValue(h, x) ==
    IF x.t = "ComplexValue" THEN AsDict(x)
    ELSE IF x.t = "list"
    THEN ListV([i \in 1..Len(h[x.v]) |->
                  IF h[x.v][i].t = "ComplexValue" THEN AsDict(h[x.v][i]) ELSE h[x.v][i]])
    ELSE x

\* ArkConfig.to_dict
ToDict(doc, h) ==
    [i \in 1..Len(doc.config) |->
        <<doc.config[i][1],
          [j \in 1..Len(doc.config[i][2]) |->
              <<doc.config[i][2][j][1], ToDictValue(h, doc.config[i][2][j][2])>>]>>]

(***************************************************************************)
(* Round trip: a mapping free of duplicate keys is loaded by from_yaml or  *)
(* from_dict, the document is turned into a mapping by to_dict, and that   *)
(* mapping is loaded again, by from_dict and by from_yaml.                 *)
(***************************************************************************)
ValuesFor(key) ==
    IF key = KeyQ
    THEN {ListV(<<OverrideDict>>), OverrideDict, OverrideInst,
          ListV(<<OverrideInst, OverrideDict>>)}
    ELSE {IntV(1), StrV(<<"a">>), StrV(<<" ", "7">>), StrV(Placeholder),
          StrV(Placeholder \o <<"s">>), StrV(UndefinedPlaceholder), BoolV(TRUE),
          ListV(<<IntV(3), StrV(<<"a">>)>>), None}

OptionSets ==
    {ps \in UNION {[1..n -> {<<k, v>> : k \in {KeyK, KeyL, KeyQ},
                                        v \in ValuesFor(KeyK) \cup ValuesFor(KeyQ)}] :
                    n \in 1..MaxOptions} :
        /\ \A i \in 1..Len(ps) : ps[i][2] \in ValuesFor(ps[i][1])
        /\ \A i, j \in 1..Len(ps) : i # j => ps[i][1] # ps[j][1]}

InitYaml ==
    /\ \E ps \in OptionSets : \E two \in BOOLEAN :
         docs = [mapping |-> IF two THEN <<<<SecT, <<<<KeyK, IntV(1)>>>>>>, <<SecS, ps>>>>
                             ELSE <<<<SecS, ps>>>>,
                 yaml |-> FALSE, doc |-> None, dict |-> <<>>,
                 viaDict |-> None, viaYaml |-> None]
    /\ heap = <<>>
    /\ mpc = "mapping"
    /\ posts = 0
    /\ data = <<>> /\ calls = <<>>
    /\ IdleClassify /\ IdleRead

\* no instance of a complex value inside a value
RECURSIVE Plain(_)
Plain(x) ==
    CASE x.t = "ComplexValue" -> FALSE
      [] x.t = "list" -> \A i \in 1..Len(x.v) : Plain(x.v[i])
      [] x.t = "dict" -> \A i \in 1..Len(x.v) : Plain(x.v[i][2])
      [] OTHER -> TRUE

\* doc = ArkConfig.from_yaml(...) or ArkConfig.from_dict(...); what
\* safe_load returns holds no instance
LoadDoc(yaml) ==
    /\ mpc = "mapping"
    /\ yaml => \A i \in 1..Len(docs.mapping) : Plain(DictV(docs.mapping[i][2]))
    /\ \E r \in {IF yaml THEN FromYaml(docs.mapping, heap)
                 ELSE FromDict(docs.mapping, heap)} :
        /\ mpc' = IF r.exc = "none" THEN "doc" ELSE r.exc
        /\ heap' = r.heap
        /\ docs' = [docs EXCEPT !.doc = IF r.exc = "none" THEN r.doc ELSE None,
                                !.yaml = yaml]
    /\ UNCHANGED <<posts, data, calls, classVars, readVars>>

\* doc.to_dict()
DoToDict ==
    /\ mpc = "doc"
    /\ docs' = [docs EXCEPT !.dict = ToDict(docs.doc, heap)]
    /\ mpc' = "dict"
    /\ UNCHANGED <<heap, posts, data, calls, classVars, readVars>>

\* from_dict and from_yaml on what to_dict returned; either result is kept
\* by value, or as the exception raised
LoadBack ==
    /\ mpc = "dict"
    /\ \E r \in {FromDict(docs.dict, heap)} :
       \E y \in {FromYaml(docs.dict, heap)} :
        /\ docs' = [docs EXCEPT
                      !.viaDict = IF r.exc = "none"
                                  THEN [t |-> "view", v |-> View(r.doc, r.heap)]
                                  ELSE Raise(r.exc),
                      !.viaYaml = IF y.exc = "none"
                                  THEN [t |-> "view", v |-> View(y.doc, y.heap)]
                                  ELSE Raise(y.exc)]
    /\ mpc' = "back"
    /\ UNCHANGED <<heap, posts, data, calls, classVars, readVars>>

NextYaml == (\E yaml \in BOOLEAN : LoadDoc(yaml)) \/ DoToDict \/ LoadBack

SpecYaml == InitYaml /\ [][NextYaml]_vars

\* C8: for a document built from a mapping free of duplicate keys,
\* from_dict(to_dict(doc)) and from_yaml(to_yaml(doc)) have the section
\* names, the keys and the values of doc, in the same order.
C8_YamlRoundTrip ==
    mpc = "back" =>
        /\ docs.viaDict = [t |-> "view", v |-> View(docs.doc, heap)]
        /\ docs.viaYaml = [t |-> "view", v |-> View(docs.doc, heap)]

\* C16: to_dict emits every complex value of the document, single or list
\* element, as a plain mapping with no instance at any depth, and from_dict
\* of that output holds an instance of the same class at the same key and
\* position.
C16_ToDictFromDictInstances ==
    mpc = "back" =>
        /\ \A i \in 1..Len(docs.dict) : Plain(DictV(docs.dict[i][2]))
        /\ \A v \in {View(docs.doc, heap)} :
           \A i \in 1..Len(v) : \A j \in 1..Len(v[i][2]) :
             \A x \in {v[i][2][j][2]} :
               /\ x.t = "ComplexValue" =>
                     /\ docs.viaDict.t = "view"
                     /\ IsInstance(docs.viaDict.v[i][2][j][2], x.v[1])
               /\ x.t = "list" =>
                     \A k \in 1..Len(x.v) :
                        x.v[k].t = "ComplexValue" =>
                          /\ docs.viaDict.t = "view"
                          /\ IsInstance(docs.viaDict.v[i][2][j][2].v[k], x.v[k].v[1])

\* '${', a name, '}' and nothing else
IsPlaceholder(s) == EnvName(s) # <<>> /\ Len(s) = Len(EnvName(s)) + 3

\* C19: after from_yaml a string value that is exactly a placeholder holds
\* the environment's value of the name, or '' when the name is not defined,
\* and every other value is what from_dict stored.
C19_OnlyExactPlaceholdersExpanded ==
    (mpc \in {"doc", "dict", "back"} /\ docs.yaml) =>
        \A r \in {FromDict(docs.mapping, <<>>)} :
        \A v \in {View(docs.doc, heap)} : \A w \in {View(r.doc, r.heap)} :
           /\ Len(v) = Len(w)
           /\ \A i \in 1..Len(w) :
                /\ Len(v[i][2]) = Len(w[i][2])
                /\ \A j \in 1..Len(w[i][2]) :
                     \A x \in {w[i][2][j][2]} :
                       v[i][2][j][2] =
                          IF x.t = "str" /\ IsPlaceholder(x.v)
                          THEN StrV(EnvGet(EnvName(x.v)))
                          ELSE x

(***************************************************************************)
(* The dataclass constructors of the complex values: the declared fields   *)
(* in order, and the default of each.                                      *)
(***************************************************************************)
Fields(cls) ==
    CASE cls = "Quantity" -> <<"MaxItemQuantity", "bIgnoreMultiplier">>
      [] cls = "ConfigOverrideItemMaxQuantity" -> <<"ItemClassString", "Quantity">>
      [] cls = "DinoSpawnWeightMultiplier" ->
            <<"DinoNameTag", "SpawnWeightMultiplier", "OverrideSpawnLimitPercentage",
              "SpawnLimitPercentage">>
      [] cls = "ItemEntry" -> ItemEntry_fields
      [] cls = "ItemSet" -> ItemSet_fields
      [] cls = "ConfigOverrideSupplyCrateItems" -> ConfigOverrideSupplyCrateItems_fields
      [] cls = "NPCsSpawnOffset" -> <<"X", "Y", "Z">>
      [] cls = "NPCDifficultyLevelRange" ->
            <<"EnemyLevelsMin", "EnemyLevelsMax", "GameDifficulties">>
      [] cls = "NPCSpawnEntry" -> NPCSpawnEntry_fields
      [] cls = "NPCSpawnLimit" -> <<"NPCClassString", "MaxPercentageOfDesiredNumToAllow">>
      [] cls = "ConfigAddNPCSpawnEntriesContainer" ->
            <<"NPCSpawnEntriesContainerClassString", "NPCSpawnEntries", "NPCSpawnLimits">>

\* a field declared without a default
MISSING == [t |-> "MISSING", v |-> 0]

Default(cls, name) ==
    CASE cls \in {"Quantity", "ConfigOverrideItemMaxQuantity"} -> MISSING
      [] cls = "DinoSpawnWeightMultiplier" /\ name = "DinoNameTag" -> MISSING
      [] cls = "NPCsSpawnOffset" -> ZeroFloat
      [] cls = "NPCDifficultyLevelRange" -> ListV(<<>>)
      [] cls = "ItemSet" /\ name = "ItemEntries" -> ListV(<<>>)
      [] cls = "ConfigOverrideSupplyCrateItems" /\ name = "ItemSets" -> ListV(<<>>)
      [] cls = "ConfigAddNPCSpawnEntriesContainer"
            /\ name \in {"NPCSpawnEntries", "NPCSpawnLimits"} -> ListV(<<>>)
      [] OTHER -> None

\* cls(**kw)
New(cls, kw) ==
    IF \E i \in 1..Len(Fields(cls)) :
          ~DictHas(kw, Fields(cls)[i]) /\ Default(cls, Fields(cls)[i]) = MISSING
    THEN Raise("TypeError")
    ELSE CvV(cls, [i \in 1..Len(Fields(cls)) |->
                     <<Fields(cls)[i],
                       DictGetOr(kw, Fields(cls)[i], Default(cls, Fields(cls)[i]))>>])

\* The class of the elements of a field that holds a list of complex
\* values; "" for any other field.
ElementClass(cls, name) ==
    CASE cls = "ItemSet" /\ name = "ItemEntries" -> "ItemEntry"
      [] cls = "ConfigOverrideSupplyCrateItems" /\ name = "ItemSets" -> "ItemSet"
      [] cls = "NPCSpawnEntry" /\ name = "NPCsSpawnOffsets" -> "NPCsSpawnOffset"
      [] cls = "NPCSpawnEntry" /\ name = "NPCDifficultyLevelRanges" ->
            "NPCDifficultyLevelRange"
      [] cls = "ConfigAddNPCSpawnEntriesContainer" /\ name = "NPCSpawnEntries" ->
            "NPCSpawnEntry"
      [] cls = "ConfigAddNPCSpawnEntriesContainer" /\ name = "NPCSpawnLimits" ->
            "NPCSpawnLimit"
      [] OTHER -> ""

(***************************************************************************)
(* Complex values on their own: an instance is built from a mapping by     *)
(* from_dict, or by the constructor from keyword arguments of the declared *)
(* types; it is turned into a mapping by asdict, as to_dict does; and the  *)
(* mapping is given to from_dict again.                                    *)
(***************************************************************************)
QuantityInst == Quantity_from_dict(QuantityDict.v)
EntryInst == ItemEntry_from_dict(EntryDict.v)
SetInst == ItemSet_from_dict(SetDict.v)
\* ItemSet(SetName='S', ItemEntries=[{...}]): the constructor keeps the list
RawSetInst == New("ItemSet", <<<<"SetName", StrV(<<"S">>)>>,
                               <<"ItemEntries", ListV(<<EntryDict>>)>>>>)
OffsetInst == NPCsSpawnOffset_from_dict(OffsetDict.v)
RangeDict == DictV(<<<<"EnemyLevelsMin", ListV(<<OneFloat>>)>>>>)

\* The values tried for the fields of each class; each field may also be
\* left out.
Candidates(cls) ==
    CASE cls = "Quantity" ->
            <<<<"MaxItemQuantity", {IntV(5)}>>, <<"bIgnoreMultiplier", {BoolV(TRUE)}>>>>
      [] cls = "ConfigOverrideItemMaxQuantity" ->
            <<<<"ItemClassString", {StrV(<<"S">>)}>>,
              <<"Quantity", {QuantityDict, DictV(<<>>), QuantityInst}>>>>
      [] cls = "DinoSpawnWeightMultiplier" ->
            <<<<"DinoNameTag", {StrV(<<"D">>)}>>, <<"SpawnWeightMultiplier", {IntV(2)}>>>>
      [] cls = "ItemEntry" ->
            <<<<"ItemEntryName", {StrV(<<"E">>)}>>,
              <<"Items", {ListV([i \in 1..n |-> StrV(<<"I">>)]) : n \in 0..MaxItems}>>>>
      [] cls = "ItemSet" ->
            <<<<"SetName", {StrV(<<"S">>)}>>,
              <<"ItemEntries", {ListV(<<>>), None, ListV(<<EntryDict>>),
                                ListV(<<EntryInst>>), ListV(<<EntryDict, EntryInst>>),
                                ListV(<<IntV(5)>>)}>>>>
      [] cls = "ConfigOverrideSupplyCrateItems" ->
            <<<<"ItemSets", {ListV(<<>>), ListV(<<SetDict>>), ListV(<<SetInst>>),
                             ListV(<<RawSetInst>>), ListV(<<SetDict, SetInst>>),
                             DictV(<<>>), StrV(<<"a", "b">>), IntV(5)}>>>>
      [] cls = "NPCsSpawnOffset" -> <<<<"X", {OneFloat}>>>>
      [] cls = "NPCDifficultyLevelRange" ->
            <<<<"EnemyLevelsMin", {ListV(<<OneFloat>>)}>>>>
      [] cls = "NPCSpawnEntry" ->
            <<<<"AnEntryName", {StrV(<<"N">>)}>>,
              <<"NPCsSpawnOffsets", {ListV(<<>>), ListV(<<OffsetDict>>),
                                     ListV(<<OffsetInst>>)}>>,
              <<"NPCDifficultyLevelRanges", {ListV(<<RangeDict>>)}>>>>
      [] cls = "NPCSpawnLimit" -> <<<<"NPCClassString", {StrV(<<"L">>)}>>>>
      [] cls = "ConfigAddNPCSpawnEntriesContainer" ->
            <<<<"NPCSpawnEntries", {ListV(<<SpawnEntryDict>>), None,
                                    ListV(<<SpawnEntryDict, BoolV(TRUE)>>)}>>,
              <<"NPCSpawnLimits", {ListV(<<LimitDict>>), ListV(<<BoolV(TRUE)>>)}>>>>

Classes ==
    {"Quantity", "ConfigOverrideItemMaxQuantity", "DinoSpawnWeightMultiplier",
     "ItemEntry", "ItemSet", "ConfigOverrideSupplyCrateItems", "NPCsSpawnOffset",
     "NPCDifficultyLevelRange", "NPCSpawnEntry", "NPCSpawnLimit",
     "ConfigAddNPCSpawnEntriesContainer"}

Absent == [t |-> "absent", v |-> 0]

\* every mapping that gives each candidate field one of its values or
\* leaves it out
Mappings(cls) ==
    {SelectSeq([i \in 1..Len(Candidates(cls)) |-> <<Candidates(cls)[i][1], f[i]>>],
               LAMBDA p : p[2] # Absent) :
        f \in {g \in [1..Len(Candidates(cls)) ->
                        {Absent} \cup UNION {Candidates(cls)[i][2] :
                                               i \in 1..Len(Candidates(cls))}] :
                 \A i \in 1..Len(Candidates(cls)) :
                    g[i] \in {Absent} \cup Candidates(cls)[i][2]}}

\* no raw mapping inside a value
RECURSIVE NoRaw(_)
NoRaw(x) ==
    CASE x.t = "dict" -> FALSE
      [] x.t = "list" -> \A i \in 1..Len(x.v) : NoRaw(x.v[i])
      [] x.t = "ComplexValue" -> \A i \in 1..Len(x.v[2]) : NoRaw(x.v[2][i][2])
      [] OTHER -> TRUE

\* keyword arguments of the declared types
WellTyped(cls, kw) ==
    \A i \in 1..Len(kw) :
        IF ElementClass(cls, kw[i][1]) # ""
        THEN \/ kw[i][2] = None
             \/ /\ kw[i][2].t = "list"
                /\ \A j \in 1..Len(kw[i][2].v) :
                      /\ IsInstance(kw[i][2].v[j], ElementClass(cls, kw[i][1]))
                      /\ NoRaw(kw[i][2].v[j])
        ELSE IF cls = "ConfigOverrideItemMaxQuantity" /\ kw[i][1] = "Quantity"
        THEN IsInstance(kw[i][2], "Quantity")
        ELSE TRUE

InitComplex ==
    /\ \E cls \in Classes : \E kw \in Mappings(cls) : \E how \in {"from_dict", "init"} :
          /\ how = "init" => WellTyped(cls, kw)
          /\ docs = [cls |-> cls, kw |-> kw, how |-> how, inst |-> None,
                     dict |-> None, back |-> None]
    /\ mpc = "args"
    /\ heap = <<>> /\ posts = 0
    /\ data = <<>> /\ calls = <<>>
    /\ IdleClassify /\ IdleRead

\* cls.from_dict(kw) or cls(**kw)
BuildInstance ==
    /\ mpc = "args"
    /\ docs' = [docs EXCEPT !.inst = IF docs.how = "init"
                                     THEN New(docs.cls, docs.kw)
                                     ELSE from_dict(docs.cls, docs.kw)]
    /\ mpc' = "built"
    /\ UNCHANGED <<heap, posts, data, calls, classVars, readVars>>

\* asdict(inst), as to_dict calls it
DumpInstance ==
    /\ mpc = "built"
    /\ docs.inst.t # "raise"
    /\ docs' = [docs EXCEPT !.dict = AsDict(docs.inst)]
    /\ mpc' = "dumped"
    /\ UNCHANGED <<heap, posts, data, calls, classVars, readVars>>

\* cls.from_dict(asdict(inst))
LoadInstance ==
    /\ mpc = "dumped"
    /\ docs' = [docs EXCEPT !.back = from_dict(docs.cls, docs.dict.v)]
    /\ mpc' = "back"
    /\ UNCHANGED <<heap, posts, data, calls, classVars, readVars>>

NextComplex == BuildInstance \/ DumpInstance \/ LoadInstance

SpecComplex == InitComplex /\ [][NextComplex]_vars

\* C14: from_dict of the mapping asdict makes of an instance succeeds and
\* gives an instance equal to it field for field.
C14_FromDictOfToDict ==
    mpc = "back" => docs.back = docs.inst

\* no key of a mapping holds None, at any depth
RECURSIVE NoNull(_)
NoNull(x) ==
    CASE x.t = "dict" ->
            \A i \in 1..Len(x.v) : x.v[i][2] # None /\ NoNull(x.v[i][2])
      [] x.t = "list" -> \A i \in 1..Len(x.v) : NoNull(x.v[i])
      [] OTHER -> TRUE

\* C15: the mapping made of a complex value has a key only for a field that
\* is set: no key holds None, at any depth.
C15_UnsetFieldsOmitted ==
    mpc \in {"dumped", "back"} => NoNull(docs.dict)

\* every field declared without a default is set, in the instance and in
\* the instances it holds
RECURSIVE RequiredSet(_)
RequiredSet(x) ==
    CASE x.t = "ComplexValue" ->
            \A i \in 1..Len(x.v[2]) :
                /\ Default(x.v[1], x.v[2][i][1]) = MISSING => x.v[2][i][2] # None
                /\ RequiredSet(x.v[2][i][2])
      [] x.t = "list" -> \A i \in 1..Len(x.v) : RequiredSet(x.v[i])
      [] OTHER -> TRUE

\* C17: from_dict of a mapping that lacks a field declared without a
\* default fails, and an instance from_dict returns has every such field
\* set.
C17_RequiredFieldMissingFails ==
    (mpc = "built" /\ docs.how = "from_dict") =>
        /\ (\E i \in 1..Len(Fields(docs.cls)) :
               /\ Default(docs.cls, Fields(docs.cls)[i]) = MISSING
               /\ ~DictHas(docs.kw, Fields(docs.cls)[i]))
             => docs.inst.t = "raise"
        /\ docs.inst.t # "raise" => RequiredSet(docs.inst)

\* every element of every list of complex values is an instance of the
\* element class, at every depth
RECURSIVE AllBuilt(_)
AllBuilt(x) ==
    x.t = "ComplexValue" =>
        \A i \in 1..Len(x.v[2]) :
            (ElementClass(x.v[1], x.v[2][i][1]) # "" /\ x.v[2][i][2].t = "list") =>
                \A j \in 1..Len(x.v[2][i][2].v) :
                    /\ IsInstance(x.v[2][i][2].v[j], ElementClass(x.v[1], x.v[2][i][1]))
                    /\ AllBuilt(x.v[2][i][2].v[j])

\* a list that mixes mappings with instances, or holds anything else
MixedOrOther(x, cls) ==
    /\ x.t = "list"
    /\ ~(\A j \in 1..Len(x.v) : x.v[j].t = "dict")
    /\ ~(\A j \in 1..Len(x.v) : IsInstance(x.v[j], cls))

\* C18: from_dict fails when a nested list mixes mappings with instances or
\* holds an element of another type, and when it succeeds every element of
\* every nested list of the result is a built instance, at every depth.
C18_NestedListsBuilt ==
    (mpc = "built" /\ docs.how = "from_dict") =>
        /\ (\E i \in 1..Len(docs.kw) :
               /\ ElementClass(docs.cls, docs.kw[i][1]) # ""
               /\ MixedOrOther(docs.kw[i][2], ElementClass(docs.cls, docs.kw[i][1])))
             => docs.inst.t = "raise"
        /\ docs.inst.t # "raise" => AllBuilt(docs.inst)

(***************************************************************************)
(* ItemEntry of the older generation (src/complex_values.py): the          *)
(* dataclass constructor with its defaults and __post_init__, and          *)
(* from_dict.                                                              *)
(***************************************************************************)
\* bool(x) is False
Falsy(x) ==
    \/ x.t = "NoneType"
    \/ x.t \in {"list", "str", "dict"} /\ x.v = <<>>
    \/ x.t = "bool" /\ ~x.v
    \/ x.t = "int" /\ x.v = 0
    \/ x.t = "float" /\ x.v[2] = <<>>

\* the default of each field of the dataclass
ItemEntryOld_default(name) ==
    CASE name \in {"MinQuantity", "MaxQuantity", "QuantityPower", "MinQuality",
                   "MaxQuality", "QualityPower"} -> OneFloat
      [] name \in {"bForceBlueprint", "bActualItemRandomWithoutReplacement"} ->
            BoolV(FALSE)
      [] name = "ChanceToBeBlueprintOverride" -> ZeroFloat
      [] OTHER -> None

\* __post_init__
ItemEntryOld_post_init(x) ==
    IF Falsy(FieldOf(x, "Items")) /\ Falsy(FieldOf(x, "ItemClassStrings"))
    THEN Raise("ValueError") ELSE x

\* ItemEntry(**kw): the fields given, the defaults for the others, then
\* __post_init__
ItemEntryOld_init(kw) ==
    ItemEntryOld_post_init(
        CvV("ItemEntry", [i \in 1..Len(ItemEntry_fields) |->
            <<ItemEntry_fields[i],
              DictGetOr(kw, ItemEntry_fields[i],
                        ItemEntryOld_default(ItemEntry_fields[i]))>>]))

\* ItemEntry.from_dict: data.get(name) for the fields whose default is None,
\* data.get(name, default) for the others
ItemEntryOld_from_dict(d) ==
    ItemEntryOld_init([i \in 1..Len(ItemEntry_fields) |->
        <<ItemEntry_fields[i],
          DictGetOr(d, ItemEntry_fields[i],
                    ItemEntryOld_default(ItemEntry_fields[i]))>>])

(***************************************************************************)
(* Constructing an ItemEntry of the older generation, directly or through  *)
(* from_dict, from the three list fields: each absent, or a list of up to  *)
(* MaxItems elements.                                                      *)
(***************************************************************************)
ListChoices(x) == {<<>>} \cup {<<ListV([i \in 1..n |-> x])>> : n \in 0..MaxItems}

InitItemEntry ==
    /\ \E a \in ListChoices(StrV(<<"I">>)) : \E b \in ListChoices(StrV(<<"C">>)) :
       \E w \in ListChoices(OneFloat) : \E via \in {"init", "from_dict"} :
         docs = [kw |-> [i \in 1..Len(a) |-> <<"Items", a[i]>>]
                        \o [i \in 1..Len(b) |-> <<"ItemClassStrings", b[i]>>]
                        \o [i \in 1..Len(w) |-> <<"ItemsWeights", w[i]>>],
                 via |-> via, result |-> None]
    /\ mpc = "args"
    /\ heap = <<>> /\ posts = 0
    /\ data = <<>> /\ calls = <<>>
    /\ IdleClassify /\ IdleRead

\* ItemEntry(**kw) or ItemEntry.from_dict(kw)
Construct ==
    /\ mpc = "args"
    /\ docs' = [docs EXCEPT !.result = IF docs.via = "init"
                                       THEN ItemEntryOld_init(docs.kw)
                                       ELSE ItemEntryOld_from_dict(docs.kw)]
    /\ mpc' = "built"
    /\ UNCHANGED <<heap, posts, data, calls, classVars, readVars>>

NextItemEntry == Construct

SpecItemEntry == InitItemEntry /\ [][NextItemEntry]_vars

\* a list field that holds a list with at least one element
Populated(kw, name) ==
    DictHas(kw, name) /\ DictGet(kw, name).t = "list" /\ DictGet(kw, name).v # <<>>

\* C12: the construction succeeds exactly when one of Items and
\* ItemClassStrings is populated and the other is not; with both or with
\* neither it raises.
C12_ItemEntryExactlyOneList ==
    mpc = "built" =>
        (docs.result.t # "raise") <=>
            (Populated(docs.kw, "Items") # Populated(docs.kw, "ItemClassStrings"))

\* C13: no ItemEntry is built whose ItemsWeights is set and differs in
\* length from the item list that is populated.
C13_ItemEntryWeightsLength ==
    (mpc = "built" /\ docs.result.t # "raise") =>
        \A w \in {FieldOf(docs.result, "ItemsWeights")} :
            w # None =>
                /\ Populated(docs.kw, "Items") => Len(w.v) = Len(DictGet(docs.kw, "Items").v)
                /\ Populated(docs.kw, "ItemClassStrings") =>
                       Len(w.v) = Len(DictGet(docs.kw, "ItemClassStrings").v)

(***************************************************************************)
(* ArkConfig.read and dump.                                                *)
(***************************************************************************)
FirstIndex(s, c) ==
    IF \E k \in 1..Len(s) : s[k] = c
    THEN CHOOSE k \in 1..Len(s) : s[k] = c /\ \A j \in 1..(k - 1) : s[j] # c
    ELSE 0

LastIndex(s, c) ==
    IF \E k \in 1..Len(s) : s[k] = c
    THEN CHOOSE k \in 1..Len(s) : s[k] = c /\ \A j \in (k + 1)..Len(s) : s[j] # c
    ELSE 0

\* f.readlines() of a file opened in text mode: '\r\n', '\r' and '\n' each
\* end a line and are read as '\n'; a last line without an end is kept.
RECURSIVE ReadLines(_, _)
ReadLines(t, cur) ==
    IF t = <<>> THEN (IF cur = <<>> THEN <<>> ELSE <<cur>>)
    ELSE IF Head(t) = "\r" /\ Len(t) >= 2 /\ t[2] = "\n"
    THEN <<Append(cur, "\n")>> \o ReadLines(SubSeq(t, 3, Len(t)), <<>>)
    ELSE IF Head(t) \in {"\r", "\n"}
    THEN <<Append(cur, "\n")>> \o ReadLines(Tail(t), <<>>)
    ELSE ReadLines(Tail(t), Append(cur, Head(t)))

\* SECTION_RE.match(line): '[', one or more characters, ']' at the start of
\* the line; the name runs to the last ']' of the line.
SECTION_RE(line) ==
    line # <<>> /\ line[1] = "[" /\ LastIndex(line, "]") >= 3

SectionName(line) == SubSeq(line, 2, LastIndex(line, "]") - 1)

\* OPTION_RE.match(line): the line holds an '='; the option is what stands
\* before the first one, the value what stands after it.
OPTION_RE(line) == FirstIndex(line, "=") # 0

Option(line) == Strip(SubSeq(line, 1, FirstIndex(line, "=") - 1))
Value(line) == Strip(SubSeq(line, FirstIndex(line, "=") + 1, Len(line)))

IsSkipped(line) == line = <<>> \/ line[1] = ";"

ReadLine_NoSectionCheck(doc, h, sec, raw) ==
    The({IF IsSkipped(line)
         THEN [exc |-> "none", doc |-> doc, heap |-> h, section_name |-> sec]
         ELSE IF SECTION_RE(line)
         THEN [exc |-> "none", doc |-> doc, heap |-> h,
               section_name |-> StrV(SectionName(line))]
         ELSE IF OPTION_RE(line)
         THEN The({[exc |-> r.exc, doc |-> r.doc, heap |-> r.heap,
                    section_name |-> sec] :
                r \in {SetOption(doc, h, IF sec = None THEN <<>> ELSE sec.v,
                                 Option(line), StrV(Value(line)))}})
         ELSE [exc |-> "none", doc |-> doc, heap |-> h, section_name |-> sec] :
           line \in {Strip(raw)}})

\* One pass of the loop of read over a line: the exception raised ("none"
\* when the loop goes on), the document, the list objects and section_name
\* afterwards.
ReadLine(doc, h, sec, raw) ==
    The({IF IsSkipped(line)
         THEN [exc |-> "none", doc |-> doc, heap |-> h, section_name |-> sec]
         ELSE IF SECTION_RE(line)
         THEN [exc |-> "none", doc |-> doc, heap |-> h,
               section_name |-> StrV(SectionName(line))]
         ELSE IF sec = None
         THEN [exc |-> "ValueError", doc |-> doc, heap |-> h, section_name |-> sec]
         ELSE IF OPTION_RE(line)
         THEN The({[exc |-> r.exc, doc |-> r.doc, heap |-> r.heap,
                    section_name |-> sec] :
                r \in {SetOption(doc, h, sec.v, Option(line), StrV(Value(line)))}})
         ELSE [exc |-> "none", doc |-> doc, heap |-> h, section_name |-> sec] :
           line \in {Strip(raw)}})

RECURSIVE Join(_, _)
Join(parts, sep) ==
    IF parts = <<>> THEN <<>>
    ELSE IF Len(parts) = 1 THEN parts[1]
    ELSE parts[1] \o sep \o Join(Tail(parts), sep)

RECURSIVE Flatten(_)
Flatten(ss) == IF ss = <<>> THEN <<>> ELSE Head(ss) \o Flatten(Tail(ss))

OptionLines_FirstOnly(h, key, item) ==
    IF item.t = "list"
    THEN [i \in 1..(IF h[item.v] = <<>> THEN 0 ELSE 1) |->
            key \o <<"=">> \o PyStr(h[item.v][i])]
    ELSE <<key \o <<"=">> \o PyStr(item)>>

\* The 'key=value' lines of one option: one per element of a list, one for
\* anything else.
OptionLines(h, key, item) ==
    IF item.t = "list"
    THEN [i \in 1..Len(h[item.v]) |-> key \o <<"=">> \o PyStr(h[item.v][i])]
    ELSE <<key \o <<"=">> \o PyStr(item)>>

\* ArkConfigSection.dump, with the text it joins the lines by
SectionDump(d, h, nl) ==
    Join(Flatten([i \in 1..Len(d) |-> OptionLines(h, d[i][1], d[i][2])]), nl)

\* ArkConfig.dump: per section the header, the section's dump and an empty
\* line, all joined
DocDump(doc, h, nl) ==
    Join(Flatten([i \in 1..Len(doc.config) |->
            <<<<"[">> \o doc.config[i][1] \o <<"]">>,
              SectionDump(doc.config[i][2], h, nl),
              <<>>>>]), nl)

CRLF == <<"\r", "\n">>
LF == <<"\n">>

\* dump of src/ark_config.py, which joins by '\r\n'
DumpCRLF(doc, h) == DocDump(doc, h, CRLF)

\* dump of src/ark_config/config.py, which joins by '\n'
DumpLF(doc, h) == DocDump(doc, h, LF)

(***************************************************************************)
(* Reading a file: the text is drawn from a menu of lines, each ended by   *)
(* '\r\n'; read opens it and runs its loop line by line; the document is   *)
(* dumped afterwards.                                                      *)
(***************************************************************************)
LineMenu ==
    {<<"[", "A", "]">>, <<"[", "B", "]">>,
     <<"F", "o", "o", "=", "1">>, <<"F", "o", "o", "=", "2">>,
     <<"B", "a", "r", "=", "t", "r", "u", "e">>,
     <<>>, <<";", "c">>, <<"x">>}

FileText(ls) == Flatten([i \in 1..Len(ls) |-> ls[i] \o CRLF])

\* A document as an earlier read left it
PriorDoc == [encoding |-> StrV(<<"u", "t", "f", "-", "1", "6">>),
             config |-> <<<<<<"Z">>, <<<<<<"K">>, IntV(1)>>>>>>>>]

\* The codecs under which the bytes of the file decode: as UTF-8, as UTF-16
\* only, or as neither; text is what the codec that succeeds returns.
Decodings == {"utf-8", "utf-16", "neither"}

OpenFile_AlwaysUtf8(file) ==
    IF file \in {"utf-8", "utf-16"}
    THEN [exc |-> "none", encoding |-> StrV(<<"u", "t", "f", "-", "8">>)]
    ELSE [exc |-> "UnicodeError", encoding |-> None]

\* open(filepath, 'r', encoding=...) and f.readlines(), first as UTF-8 and
\* after a UnicodeError as UTF-16; the encoding recorded, or the exception
\* that leaves the try statement.
OpenFile(file) ==
    IF file = "utf-8" THEN [exc |-> "none", encoding |-> StrV(<<"u", "t", "f", "-", "8">>)]
    ELSE IF file = "utf-16"
    THEN [exc |-> "none", encoding |-> StrV(<<"u", "t", "f", "-", "1", "6">>)]
    ELSE [exc |-> "UnicodeError", encoding |-> None]

InitRead ==
    /\ \E n \in 0..MaxLines : \E ls \in [1..n -> LineMenu] : text = FileText(ls)
    /\ lines = <<>>
    /\ section_name = None
    /\ rpc = "open"
    /\ stored = <<>>
    /\ dumped = None
    /\ \E prior \in {ArkConfig(None), PriorDoc} : \E file \in Decodings :
          docs = [self |-> prior, prior |-> prior, file |-> file]
    /\ heap = <<>>
    /\ mpc = "idle" /\ posts = 0
    /\ data = <<>> /\ calls = <<>>
    /\ IdleClassify

Open_KeepSections ==
    /\ rpc = "open"
    /\ \E r \in {OpenFile(docs.file)} :
         IF r.exc = "none"
         THEN /\ lines' = ReadLines(text, <<>>)
              /\ section_name' = None
              /\ docs' = [docs EXCEPT !.self.encoding = r.encoding]
              /\ rpc' = "reading"
         ELSE /\ rpc' = r.exc
              /\ UNCHANGED <<lines, section_name, docs>>
    /\ UNCHANGED <<heap, stored, text, dumped, mpc, posts, data, calls, classVars>>

\* The file is decoded and its lines are read; then section_name is None
\* and the document is emptied.  When neither codec decodes the file the
\* exception leaves read before either.
Open ==
    /\ rpc = "open"
    /\ \E r \in {OpenFile(docs.file)} :
         IF r.exc = "none"
         THEN /\ lines' = ReadLines(text, <<>>)
              /\ section_name' = None
              /\ docs' = [docs EXCEPT !.self = [encoding |-> r.encoding, config |-> <<>>]]
              /\ rpc' = "reading"
         ELSE /\ rpc' = r.exc
              /\ UNCHANGED <<lines, section_name, docs>>
    /\ UNCHANGED <<heap, stored, text, dumped, mpc, posts, data, calls, classVars>>

\* One pass of the loop
Line ==
    /\ rpc = "reading"
    /\ lines # <<>>
    /\ \E r \in {ReadLine(docs.self, heap, section_name, Head(lines))} :
        /\ rpc' = IF r.exc = "none" THEN "reading" ELSE "error"
        /\ docs' = [docs EXCEPT !.self = r.doc]
        /\ heap' = r.heap
        /\ section_name' = r.section_name
        /\ stored' = IF View(r.doc, r.heap) # View(docs.self, heap)
                     THEN Append(stored, Len(lines)) ELSE stored
    /\ lines' = Tail(lines)
    /\ UNCHANGED <<text, dumped, mpc, posts, data, calls, classVars>>

\* The loop is over: read returns
Return ==
    /\ rpc = "reading"
    /\ lines = <<>>
    /\ rpc' = "done"
    /\ UNCHANGED <<lines, section_name, stored, text, dumped, heap, docs,
                   mpc, posts, data, calls, classVars>>

\* dump() of either generation on the document read
Dump ==
    /\ rpc = "done"
    /\ dumped' = [t |-> "dumps", v |-> <<DumpCRLF(docs.self, heap),
                                         DumpLF(docs.self, heap)>>]
    /\ rpc' = "dumped"
    /\ UNCHANGED <<lines, section_name, stored, text, heap, docs,
                   mpc, posts, data, calls, classVars>>

NextRead == Open \/ Line \/ Return \/ Dump

SpecRead == InitRead /\ [][NextRead]_vars

(***************************************************************************)
(* What the text read says, line by line.                                  *)
(***************************************************************************)
AllLines ==
    The({[i \in 1..Len(ls) |-> Strip(ls[i])] : ls \in {ReadLines(text, <<>>)}})

\* the lines the loop has been through
Consumed == SubSeq(AllLines, 1, Len(AllLines) - Len(lines))

HeaderLines(ls) == {i \in 1..Len(ls) : ~IsSkipped(ls[i]) /\ SECTION_RE(ls[i])}

OtherLines(ls) == {i \in 1..Len(ls) : ~IsSkipped(ls[i]) /\ ~SECTION_RE(ls[i])}

Min(S) == CHOOSE x \in S : \A y \in S : x <= y
Max(S) == CHOOSE x \in S : \A y \in S : x >= y

\* the name in the last header at or before line i
HeaderBefore(ls, i) == SectionName(ls[Max({j \in HeaderLines(ls) : j < i})])

HasOption(doc, name, option) ==
    /\ SectionIndex(doc, name) # 0
    /\ KeyIndex(doc.config[SectionIndex(doc, name)][2], option) # 0

\* C9: read is a two-state machine.  section_name is None exactly while no
\* header has been read; while that is so, the first line that is neither
\* blank, nor a comment, nor a header ends read with ValueError, with nothing
\* stored, and read ends with an error in no other way; every option line
\* read after a header is stored under the name of the last header before it,
\* and the document holds no other option.
C9_ReadTwoStates ==
    rpc \in {"reading", "error", "done", "dumped"} =>
        \A c \in {Consumed} :
        \A hs \in {HeaderLines(c)} :
        \A os \in {OtherLines(c)} :
        \A first \in {IF hs = {} THEN Len(c) + 1 ELSE Min(hs)} :
        \A early \in {{i \in os : i < first}} :
            /\ (section_name = None) <=> (hs = {})
            /\ section_name # None => section_name = StrV(SectionName(c[Max(hs)]))
            /\ early # {} => /\ rpc = "error"
                             /\ Len(c) = Min(early)
                             /\ docs.self.config = <<>>
                             /\ section_name = None
            /\ rpc = "error" => early # {}
            /\ \A i \in os : (i > first /\ OPTION_RE(c[i])) =>
                   HasOption(docs.self, HeaderBefore(c, i), Option(c[i]))
            /\ \A s \in 1..Len(docs.self.config) :
               \A k \in 1..Len(docs.self.config[s][2]) :
                   \E i \in os : /\ i > first /\ OPTION_RE(c[i])
                                 /\ HeaderBefore(c, i) = docs.self.config[s][1]
                                 /\ Option(c[i]) = docs.self.config[s][2][k][1]
            /\ \A n \in 1..Len(stored) :
                   \A i \in {Len(c) + Len(lines) - stored[n] + 1} :
                       i \in os /\ i > first /\ OPTION_RE(c[i])

\* read has been through two headers and stored an option under each
C9_Witness ==
    /\ rpc = "done"
    /\ Len(docs.self.config) = 2
    /\ Len(stored) = 2
    /\ Cardinality(HeaderLines(Consumed)) = 2

RECURSIVE SumSeq(_)
SumSeq(ns) == IF ns = <<>> THEN 0 ELSE Head(ns) + SumSeq(Tail(ns))

\* C21: read records 'utf-8' when the file decodes as UTF-8 and 'utf-16'
\* when it decodes as UTF-16 only; when it decodes as neither, read ends
\* with the decoding error and the document, sections and encoding, is as
\* it was before the call.
C21_EncodingRecorded ==
    rpc # "open" =>
        /\ docs.file = "utf-8" =>
              /\ rpc # "UnicodeError"
              /\ docs.self.encoding = StrV(<<"u", "t", "f", "-", "8">>)
        /\ docs.file = "utf-16" =>
              /\ rpc # "UnicodeError"
              /\ docs.self.encoding = StrV(<<"u", "t", "f", "-", "1", "6">>)
        /\ docs.file = "neither" =>
              /\ rpc = "UnicodeError"
              /\ docs.self = docs.prior
              /\ heap = <<>>

C21_Witness ==
    /\ rpc = "UnicodeError"
    /\ docs.prior = PriorDoc
    /\ docs.self.config # <<>>

\* the option lines after the first header
StoredLines(ls) ==
    {i \in OtherLines(ls) :
        /\ HeaderLines(ls) # {}
        /\ i > Min(HeaderLines(ls))
        /\ OPTION_RE(ls[i])}

\* the option lines under a header name
LinesUnder(ls, name) == {i \in StoredLines(ls) : HeaderBefore(ls, i) = name}

\* the option elements of the section at position s
SectionElements(doc, h, s) ==
    SumSeq([j \in 1..Len(doc.config[s][2]) |->
              IF doc.config[s][2][j][2].t = "list"
              THEN Len(h[doc.config[s][2][j][2].v]) ELSE 1])

\* C25: when read returns, the sections of the document are the header
\* names that have an option line, each once, in the order of their first
\* option line, whatever the document held before; a header with no option
\* line has no section, and the option lines under a header name that
\* occurs again are all in the one section of that name.
C25_SectionsAreStoredHeaders ==
    rpc \in {"done", "dumped"} =>
        \A ls \in {AllLines} :
        \A c \in {docs.self.config} :
            /\ {c[s][1] : s \in 1..Len(c)} =
                  {HeaderBefore(ls, i) : i \in StoredLines(ls)}
            /\ \A s, t \in 1..Len(c) :
                  s < t => Min(LinesUnder(ls, c[s][1])) < Min(LinesUnder(ls, c[t][1]))
            /\ \A s \in 1..Len(c) :
                  SectionElements(docs.self, heap, s) =
                      Cardinality(LinesUnder(ls, c[s][1]))

C25_Witness ==
    /\ rpc = "done"
    /\ docs.prior = PriorDoc
    /\ Len(docs.self.config) = 1
    /\ SectionElements(docs.self, heap, 1) = 2
    /\ Cardinality(HeaderLines(AllLines)) = 2

\* the option elements a document holds: one for a single value, one for
\* each element of a list
OptionElements(doc, h) ==
    SumSeq([i \in 1..Len(doc.config) |->
              SumSeq([j \in 1..Len(doc.config[i][2]) |->
                        IF doc.config[i][2][j][2].t = "list"
                        THEN Len(h[doc.config[i][2][j][2].v]) ELSE 1])])

\* C20: when read returns, the document holds as many option elements as
\* the text has lines after its first header that are neither blank, nor a
\* comment, nor a header: each such line caused exactly one set.
C20_OneSetPerOptionLine ==
    rpc \in {"done", "dumped"} =>
        \A ls \in {AllLines} :
        \A hs \in {HeaderLines(ls)} :
            OptionElements(docs.self, heap) =
                Cardinality({i \in OtherLines(ls) : hs # {} /\ i > Min(hs)})

\* text.split('\n')
RECURSIVE SplitLines(_, _)
SplitLines(t, cur) ==
    IF t = <<>> THEN <<cur>>
    ELSE IF Head(t) = "\n" THEN <<cur>> \o SplitLines(Tail(t), <<>>)
    ELSE SplitLines(Tail(t), Append(cur, Head(t)))

\* the lines of a section: a line per element of each list and one line per
\* other value, in key order
RECURSIVE ExpectedOptionLines(_, _)
ExpectedOptionLines(d, h) ==
    IF d = <<>> THEN <<>>
    ELSE (IF Head(d)[2].t = "list"
          THEN [k \in 1..Len(h[Head(d)[2].v]) |->
                  Head(d)[1] \o <<"=">> \o PyStr(h[Head(d)[2].v][k])]
          ELSE <<Head(d)[1] \o <<"=">> \o PyStr(Head(d)[2])>>)
         \o ExpectedOptionLines(Tail(d), h)

\* per section the header, the section's lines (its dump is the empty text
\* when it has none) and an empty line
RECURSIVE ExpectedLines(_, _)
ExpectedLines(c, h) ==
    IF c = <<>> THEN <<>>
    ELSE <<<<"[">> \o Head(c)[1] \o <<"]">>>>
         \o (IF ExpectedOptionLines(Head(c)[2], h) = <<>> THEN <<<<>>>>
             ELSE ExpectedOptionLines(Head(c)[2], h))
         \o <<<<>>>>
         \o ExpectedLines(Tail(c), h)

\* C22: the text dump returns is, line by line and section by section in
\* insertion order, the header '[name]', then for each key in insertion
\* order one 'key=value' line per element of a list and one line for any
\* other value, then one empty line.
C22_DumpLines ==
    rpc = "dumped" =>
        \/ docs.self.config = <<>> /\ dumped.v[2] = <<>>
        \/ /\ docs.self.config # <<>>
           /\ SplitLines(dumped.v[2], <<>>) = ExpectedLines(docs.self.config, heap)

C22_Witness ==
    /\ rpc = "dumped"
    /\ Len(docs.self.config) = 1
    /\ Len(docs.self.config[1][2]) = 2
    /\ docs.self.config[1][2][1][2].t = "list"
    /\ Len(SplitLines(dumped.v[2], <<>>)) = 5

\* a text of the kind C7 speaks of: a header, then key=value lines whose
\* values are integer tokens or lower-case boolean tokens, each line ended by
\* '\r\n'
IsC7Text ==
    /\ Len(AllLines) >= 2
    /\ text = FileText(AllLines)
    /\ SECTION_RE(AllLines[1]) /\ LastIndex(AllLines[1], "]") = Len(AllLines[1])
    /\ \A i \in 2..Len(AllLines) :
         /\ ~IsSkipped(AllLines[i]) /\ ~SECTION_RE(AllLines[i])
         /\ OPTION_RE(AllLines[i])
         /\ \/ INT_RE(Value(AllLines[i]))
            \/ Value(AllLines[i]) \in {<<"t", "r", "u", "e">>, <<"f", "a", "l", "s", "e">>}

\* C7: after reading such a text, dump() of the document (the generation
\* that joins lines by '\r\n') is byte-identical to the text read.
C7_ReadDumpByteIdentical ==
    (rpc = "dumped" /\ IsC7Text) => dumped.v[1] = text

(***************************************************************************)
(* The classifier on its own: a token is drawn, classified, rendered the   *)
(* way dump renders it, and classified again.                              *)
(***************************************************************************)
GenAlphabet == {"0", "1", ".", "+", "-", " ", "e", "x"}
NumAlphabet == {"0", "1", "."}
Pads == {<<>>, <<" ">>, <<"\t">>, <<"x">>}

StringsUpTo(A, n) == UNION {[1..k -> A] : k \in 0..n}

Upper(c) ==
    IF \E i \in 1..26 : LowerSeq[i] = c
    THEN UpperSeq[CHOOSE i \in 1..26 : LowerSeq[i] = c]
    ELSE c

CaseVariants(w) ==
    {[i \in 1..Len(w) |-> IF i \in U THEN Upper(w[i]) ELSE w[i]] :
        U \in SUBSET (1..Len(w))}

BoolTokens(pads) ==
    {p \o w \o q :
        p \in pads, q \in pads,
        w \in CaseVariants(<<"t", "r", "u", "e">>)
              \cup CaseVariants(<<"f", "a", "l", "s", "e">>)}

InitClassify ==
    /\ \/ value \in StringsUpTo(GenAlphabet, MaxLen)
       \/ value \in StringsUpTo(NumAlphabet, MaxNumLen)
       \/ value \in BoolTokens(Pads)
    /\ parsed = None /\ rendered = <<>> /\ reparsed = None
    /\ cpc = "start"
    /\ IdleSection /\ IdleDocs /\ IdleRead

Classify ==
    /\ cpc = "start"
    /\ parsed' = ParseValue(value)
    /\ cpc' = "parsed"
    /\ UNCHANGED <<value, rendered, reparsed, heap, secVars, docVars, readVars>>

Render ==
    /\ cpc = "parsed"
    /\ parsed.t # "raise"
    /\ rendered' = PyStr(parsed)
    /\ cpc' = "rendered"
    /\ UNCHANGED <<value, parsed, reparsed, heap, secVars, docVars, readVars>>

Reclassify ==
    /\ cpc = "rendered"
    /\ reparsed' = ParseValue(rendered)
    /\ cpc' = "done"
    /\ UNCHANGED <<value, parsed, rendered, heap, secVars, docVars, readVars>>

NextClassify == Classify \/ Render \/ Reclassify

SpecClassify == InitClassify /\ [][NextClassify]_vars

(***************************************************************************)
(* The classification the specification states, written as a scan of the   *)
(* trimmed token by a five-state automaton.                                *)
(***************************************************************************)
RefTrim(s) ==
    LET I == {i \in 1..Len(s) : s[i] \notin Whitespace} IN
    IF I = {} THEN <<>>
    ELSE SubSeq(s, CHOOSE i \in I : \A j \in I : i <= j,
                   CHOOSE i \in I : \A j \in I : j <= i)

RefStep(q, c) ==
    CASE q = "start" /\ c \in {"+", "-"} -> "sign"
      [] q \in {"start", "sign", "int"} /\ c \in Digit -> "int"
      [] q \in {"start", "sign", "int"} /\ c = "." -> "dot"
      [] q \in {"dot", "frac"} /\ c \in Digit -> "frac"
      [] OTHER -> "bad"

RECURSIVE RefScan(_, _)
RefScan(s, q) == IF s = <<>> THEN q ELSE RefScan(Tail(s), RefStep(q, Head(s)))

\* s is the word w in some letter case
RefIsWord(s, w) ==
    Len(s) = Len(w) /\ \A i \in 1..Len(w) : s[i] \in {w[i], Upper(w[i])}

RefKind(raw) ==
    LET s == RefTrim(raw)
        q == RefScan(s, "start")
    IN  IF RefIsWord(s, <<"t", "r", "u", "e">>) \/ RefIsWord(s, <<"f", "a", "l", "s", "e">>)
        THEN "bool"
        ELSE IF q = "frac" THEN "float"
        ELSE IF q = "int" THEN "int"
        ELSE "str"

RECURSIVE RefPow10(_)
RefPow10(n) == IF n = 0 THEN 1 ELSE 10 * RefPow10(n - 1)

\* the number a run of digits writes, most significant digit first
RECURSIVE RefNat(_)
RefNat(ds) ==
    IF ds = <<>> THEN 0
    ELSE DigitVal(Head(ds)) * RefPow10(Len(ds) - 1) + RefNat(Tail(ds))

RefDigits(s) == SelectSeq(s, LAMBDA c : c \in Digit)

\* the float f is the number the literal s writes: same sign, and
\* 0.sig * 10^decpt = digits(s) / 10^(digits after the dot)
RefSameFloat(f, s) ==
    LET n == RefNat(RefDigits(s))
        frac == Len(s) - FirstIndex(s, ".")
        e == f[3] - Len(f[2]) + frac
    IN  /\ f[1] = (s[1] = "-")
        /\ (f[2] # <<>> => f[2][1] # "0" /\ f[2][Len(f[2])] # "0")
        /\ IF e >= 0 THEN RefNat(f[2]) * RefPow10(e) = n
           ELSE RefNat(f[2]) = n * RefPow10(0 - e)

\* C5: _parse_value never raises, and its result is what the reference
\* classification gives (boolean, then float, then integer, then the trimmed
\* string itself), in type and in value; '1' is the integer 1, '1.0' the
\* float 1.0, '1.' a string.
C5_ClassifierMatchesReference ==
    cpc = "parsed" =>
        /\ parsed.t # "raise"
        /\ parsed.t = RefKind(value)
        /\ (parsed.t = "str" => parsed.v = RefTrim(value))
        /\ (parsed.t = "bool" => parsed.v = (RefTrim(value)[1] \in {"t", "T"}))
        /\ (parsed.t = "int" =>
              parsed.v = (IF RefTrim(value)[1] = "-" THEN 0 - RefNat(RefDigits(value))
                          ELSE RefNat(RefDigits(value))))
        /\ (parsed.t = "float" => RefSameFloat(parsed.v, RefTrim(value)))
        /\ (value = <<"1">> => parsed = IntV(1))
        /\ (value = <<"1", ".", "0">> => parsed = FloatV(FALSE, <<"1">>, 1))
        /\ (value = <<"1", ".">> => parsed = StrV(<<"1", ".">>))

C5_Witness ==
    /\ cpc = "parsed"
    /\ value = <<" ", "1", ".">>
    /\ parsed = StrV(<<"1", ".">>)

\* C6: classifying the rendered form of a classified token gives the
\* classified token again.
C6_ClassifyRenderIdempotent ==
    cpc = "done" => reparsed = parsed

(***************************************************************************)
(* restart (src/_ark_hoster.py).  docs holds the locals of the call: the   *)
(* number n of selected servers (server k is the k-th of the list),        *)
(* seconds_left, dispatched_notifications, the index i of the server a     *)
(* loop is at, the position pc of the main thread, whether the panel       *)
(* answered the login with OK, the state of each future, and the results   *)
(* reported.  log is the sequence of calls made to the servers and to the  *)
(* panel: the call, the value of seconds_left at the call, and the server. *)
(***************************************************************************)
\* what an RCON call does: it returns, or raises one of the two exceptions
\* restart catches, or any other exception
RconOutcomes == {"ok", "ConnectionRefusedError", "EmptyResponse", "OSError"}
Caught == {"ConnectionRefusedError", "EmptyResponse"}

ShouldNotify_EveryMinute(s) ==
    \/ s > 300 /\ s % 300 = 0
    \/ s <= 300 /\ s % 60 = 0

\* should_notify of one pass of the countdown
ShouldNotify(s) ==
    \/ s > 300 /\ s % 300 = 0
    \/ 60 < s /\ s <= 300 /\ s % 60 = 0
    \/ s <= 60 /\ s % 20 = 0

Logged(d, op, k) == [d EXCEPT !.log = Append(@, <<op, d.seconds_left, k>>)]

\* for ark_rcon in ark_rcons: the loop begins, or has nothing to go through
StartSave(d) ==
    IF d.n = 0 THEN [d EXCEPT !.pc = "sleep"] ELSE [d EXCEPT !.pc = "save", !.i = 1]

\* if seconds_left == 30
AfterRound(d) ==
    IF d.seconds_left = 30 THEN StartSave(d) ELSE [d EXCEPT !.pc = "sleep"]

StartRound(d) ==
    IF d.n = 0 THEN AfterRound(d) ELSE [d EXCEPT !.pc = "broadcast", !.i = 1]

\* the loop over ark_rcons goes to its next server or ends
NextServer(d, phase) ==
    IF d.i < d.n THEN [d EXCEPT !.pc = phase, !.i = @ + 1]
    ELSE IF phase = "broadcast" THEN AfterRound(d)
    ELSE [d EXCEPT !.pc = "sleep"]

\* try: ark_rcon.broadcast(message) except ...
AfterBroadcast(d, out) ==
    IF out \in Caught \cup {"ok"} THEN NextServer(d, "broadcast")
    ELSE [d EXCEPT !.pc = "raised"]

AfterSave_StopOnError(d, out) ==
    IF out = "ok" THEN [d EXCEPT !.pc = "kick", !.saved = @ \cup {d.i}]
    ELSE IF out \in Caught THEN [d EXCEPT !.pc = "sleep"]
    ELSE [d EXCEPT !.pc = "raised"]

\* try: ark_rcon.save_world(); ark_rcon.kick_all_players() except ...
AfterSave(d, out) ==
    IF out = "ok" THEN [d EXCEPT !.pc = "kick", !.saved = @ \cup {d.i}]
    ELSE IF out \in Caught THEN NextServer(d, "save")
    ELSE [d EXCEPT !.pc = "raised"]

AfterKick(d, out) ==
    IF out \in Caught \cup {"ok"} THEN NextServer(d, "save")
    ELSE [d EXCEPT !.pc = "raised"]

WebLoginPost_IgnoreStatus(d, ok) == [d EXCEPT !.pc = "submit", !.i = 1]

\* response = session.post(login_url, ...); if not response.ok: raise
WebLoginPost(d, ok) ==
    IF ok THEN [d EXCEPT !.pc = "submit", !.i = 1]
    ELSE [d EXCEPT !.pc = "raised"]

NextFuture_AsCompleted(d) ==
    IF \E k \in 1..d.n : d.futures[k] = "done" /\ \A j \in 1..Len(d.reported) : d.reported[j] # k
    THEN CHOOSE k \in 1..d.n :
            /\ d.futures[k] = "done" /\ \A j \in 1..Len(d.reported) : d.reported[j] # k
            /\ \A m \in 1..d.n :
                 (d.futures[m] = "done" /\ \A j \in 1..Len(d.reported) : d.reported[j] # m)
                    => m <= k
    ELSE d.i

\* for future in futures: the future whose result is waited for
NextFuture(d) == d.i

InitRestart ==
    /\ \E n \in 0..MaxServers : \E delay \in 0..MaxDelay :
          docs = [n |-> n, delay |-> delay, seconds_left |-> delay * 60,
                  dispatched |-> {}, i |-> 1, pc |-> "loop", log |-> <<>>,
                  saved |-> {}, logged_in |-> FALSE,
                  futures |-> [k \in 1..n |-> "none"], reported |-> <<>>]
    /\ mpc = "restart"
    /\ heap = <<>> /\ posts = 0
    /\ data = <<>> /\ calls = <<>>
    /\ IdleClassify /\ IdleRead

\* One pass of the countdown begins
Countdown ==
    /\ docs.pc = "loop"
    /\ docs.seconds_left > 0
    /\ docs' = IF ShouldNotify(docs.seconds_left)
                  /\ docs.seconds_left \notin docs.dispatched
               THEN StartRound([docs EXCEPT !.dispatched = @ \cup {docs.seconds_left}])
               ELSE AfterRound(docs)
    /\ UNCHANGED <<mpc, heap, posts, data, calls, classVars, readVars>>

Broadcast ==
    /\ docs.pc = "broadcast"
    /\ \E out \in RconOutcomes :
          docs' = AfterBroadcast(Logged(docs, "broadcast", docs.i), out)
    /\ UNCHANGED <<mpc, heap, posts, data, calls, classVars, readVars>>

SaveWorld ==
    /\ docs.pc = "save"
    /\ \E out \in RconOutcomes :
          docs' = AfterSave(Logged(docs, "save_world", docs.i), out)
    /\ UNCHANGED <<mpc, heap, posts, data, calls, classVars, readVars>>

KickAllPlayers ==
    /\ docs.pc = "kick"
    /\ \E out \in RconOutcomes :
          docs' = AfterKick(Logged(docs, "kick_all_players", docs.i), out)
    /\ UNCHANGED <<mpc, heap, posts, data, calls, classVars, readVars>>

\* time.sleep(1) and the next value of the range
Sleep ==
    /\ docs.pc = "sleep"
    /\ docs' = [docs EXCEPT !.seconds_left = @ - 1, !.pc = "loop"]
    /\ UNCHANGED <<mpc, heap, posts, data, calls, classVars, readVars>>

\* The range is exhausted: _web_login gets the login page and looks for the
\* CSRF token
GetLoginPage ==
    /\ docs.pc = "loop"
    /\ docs.seconds_left = 0
    /\ \E found \in BOOLEAN :
          docs' = [docs EXCEPT !.pc = IF found THEN "login" ELSE "raised"]
    /\ UNCHANGED <<mpc, heap, posts, data, calls, classVars, readVars>>

PostLogin ==
    /\ docs.pc = "login"
    /\ \E ok \in BOOLEAN : docs' = [WebLoginPost(docs, ok) EXCEPT !.logged_in = ok]
    /\ UNCHANGED <<mpc, heap, posts, data, calls, classVars, readVars>>

\* ThreadPoolExecutor(max_workers=len(servers)) raises ValueError for 0;
\* executor.submit for the next server otherwise: its worker starts
Submit ==
    /\ docs.pc = "submit"
    /\ docs' = IF docs.n = 0 THEN [docs EXCEPT !.pc = "raised"]
               ELSE [docs EXCEPT !.futures[docs.i] = "running",
                                 !.i = IF docs.i < docs.n THEN @ + 1 ELSE 1,
                                 !.pc = IF docs.i < docs.n THEN "submit" ELSE "collect"]
    /\ UNCHANGED <<mpc, heap, posts, data, calls, classVars, readVars>>

\* A worker: session.post(restart_url, ...) is sent
SendRestartRequest(k) ==
    /\ k <= docs.n
    /\ docs.futures[k] = "running"
    /\ docs' = [docs EXCEPT !.futures[k] = "sent",
                            !.log = Append(@, <<"restart", docs.seconds_left, k>>)]
    /\ UNCHANGED <<mpc, heap, posts, data, calls, classVars, readVars>>

\* A worker: the response arrives and _send_restart_request returns, or the
\* request raises
Respond(k) ==
    /\ k <= docs.n
    /\ docs.futures[k] = "sent"
    /\ \E out \in {"done", "failed"} : docs' = [docs EXCEPT !.futures[k] = out]
    /\ UNCHANGED <<mpc, heap, posts, data, calls, classVars, readVars>>

\* future.result() returns and the result is printed, or raises what the
\* request raised
Result ==
    /\ docs.pc = "collect"
    /\ \E k \in {NextFuture(docs)} :
         /\ docs.futures[k] \in {"done", "failed"}
         /\ docs' = IF docs.futures[k] = "failed"
                    THEN [docs EXCEPT !.pc = "exit_raising"]
                    ELSE [docs EXCEPT !.reported = Append(@, k),
                                      !.i = @ + 1,
                                      !.pc = IF docs.i < docs.n THEN "collect" ELSE "exit"]
    /\ UNCHANGED <<mpc, heap, posts, data, calls, classVars, readVars>>

\* The with statement is left: shutdown(wait=True) returns when every worker
\* is through
Shutdown ==
    /\ docs.pc \in {"exit", "exit_raising"}
    /\ \A k \in 1..docs.n : docs.futures[k] \in {"done", "failed"}
    /\ docs' = [docs EXCEPT !.pc = IF docs.pc = "exit" THEN "returned" ELSE "raised"]
    /\ UNCHANGED <<mpc, heap, posts, data, calls, classVars, readVars>>

NextRestart ==
    \/ Countdown \/ Broadcast \/ SaveWorld \/ KickAllPlayers \/ Sleep
    \/ GetLoginPage \/ PostLogin \/ Submit
    \/ (\E k \in 1..MaxServers : SendRestartRequest(k))
    \/ (\E k \in 1..MaxServers : Respond(k))
    \/ Result \/ Shutdown

SpecRestart == InitRestart /\ [][NextRestart]_vars

\* the positions in the log of the calls op, and of those to server k
Events(op) == {e \in 1..Len(docs.log) : docs.log[e][1] = op}
EventsOn(op, k) == {e \in Events(op) : docs.log[e][3] = k}

\* C23: a restart request is sent only with the countdown at zero and the
\* login succeeded; when the login fails no restart request is sent.
C23_RestartOnlyAfterLogin ==
    mpc = "restart" =>
        /\ Events("restart") # {} => docs.logged_in /\ docs.seconds_left = 0
        /\ \A e \in Events("restart") : docs.log[e][2] = 0
        /\ ~docs.logged_in => Events("restart") = {}

C23_Witness ==
    /\ mpc = "restart"
    /\ docs.pc = "raised"
    /\ ~docs.logged_in
    /\ docs.seconds_left = 0
    /\ docs.n = 2
    /\ Events("broadcast") # {}

\* the countdown is over
CountdownOver == docs.seconds_left = 0 /\ docs.pc # "loop"

\* C26: with a delay of at least a minute, once the countdown is over
\* save_world has been attempted on every server exactly once, with 30
\* seconds left; a save is never attempted twice or at another time, and
\* every save precedes every restart request; kick_all_players is attempted
\* on a server only after save_world returned on that server; with a delay of
\* 0 neither is attempted.
C26_SaveAndKickAtThirty ==
    mpc = "restart" =>
        /\ (docs.delay >= 1 /\ CountdownOver) =>
              \A k \in 1..docs.n : Cardinality(EventsOn("save_world", k)) = 1
        /\ \A k \in 1..docs.n : Cardinality(EventsOn("save_world", k)) <= 1
        /\ \A e \in Events("save_world") :
              /\ docs.log[e][2] = 30
              /\ \A r \in Events("restart") : e < r
        /\ \A e \in Events("kick_all_players") :
              /\ docs.log[e][3] \in docs.saved
              /\ \E v \in EventsOn("save_world", docs.log[e][3]) : v < e
        /\ docs.delay = 0 => Events("save_world") \cup Events("kick_all_players") = {}

\* save_world failed on the first server, was attempted on the second, and
\* the restart went through
C26_Witness ==
    /\ mpc = "restart"
    /\ docs.pc = "returned"
    /\ docs.n = 2
    /\ docs.saved = {2}
    /\ Cardinality(Events("kick_all_players")) = 1
    /\ Cardinality(Events("restart")) = 2

\* the remaining-seconds values of the claim
IsRoundTime(s) ==
    \/ s > 300 /\ s % 300 = 0
    \/ 60 < s /\ s <= 300 /\ s % 60 = 0
    \/ s <= 60 /\ s % 20 = 0

\* the broadcasts made with s seconds left to server k
RoundEvents(s, k) == {e \in EventsOn("broadcast", k) : docs.log[e][2] = s}

\* C27: the rounds dispatched are those of the remaining-seconds values the
\* claim lists, each once, in decreasing order; in a round the broadcast is
\* attempted on every server, in list order, whatever the earlier ones did.
\* The pass of the countdown that is through has its round or none, no
\* later step adds to it, and with the countdown over this is so for every
\* value of 1..60*d.
C27_BroadcastRounds ==
    (mpc = "restart" /\ docs.pc # "raised") =>
        /\ \A s \in (IF docs.seconds_left = 0 THEN 1..(60 * docs.delay)
                      ELSE IF docs.pc = "sleep" THEN {docs.seconds_left} ELSE {}) :
              /\ s \in docs.dispatched <=> IsRoundTime(s)
              /\ \A k \in 1..docs.n :
                    Cardinality(RoundEvents(s, k)) = IF IsRoundTime(s) THEN 1 ELSE 0
        /\ \A s \in docs.dispatched : s >= docs.seconds_left /\ s <= 60 * docs.delay
        /\ \A e \in Events("broadcast") :
              /\ docs.log[e][2] \in docs.dispatched
              /\ docs.log[e][2] >= docs.seconds_left
        /\ \A e, f \in Events("broadcast") :
              e < f => \/ docs.log[e][2] > docs.log[f][2]
                       \/ /\ docs.log[e][2] = docs.log[f][2]
                          /\ docs.log[e][3] < docs.log[f][3]

C27_Witness ==
    /\ mpc = "restart"
    /\ docs.pc = "returned"
    /\ docs.n = 2
    /\ docs.delay = 10
    /\ docs.dispatched = {600, 300, 240, 180, 120, 60, 40, 20}
    /\ Cardinality(Events("broadcast")) = 16

RECURSIVE Pow10(_)
Pow10(n) == IF n = 0 THEN 1 ELSE 10 * Pow10(n - 1)

\* n / d rounded to the nearest integer.  A decimal tie is decided in the
\* code by the binary value of the float; it goes to the even neighbour
\* here.
RoundDiv(n, d) ==
    IF 2 * (n % d) > d \/ (2 * (n % d) = d /\ (n \div d) % 2 = 1)
    THEN (n \div d) + 1
    ELSE n \div d

\* the natural m as 'i.ffffff', m counting millionths
Millionths(m) ==
    NatToDigits(m \div 1000000) \o <<".">>
        \o Zeros(6 - Len(NatToDigits(m % 1000000))) \o NatToDigits(m % 1000000)

\* f"{x:.6f}"
Fixed6(x) ==
    CASE x.t = "float" ->
            StrV((IF x.v[1] THEN <<"-">> ELSE <<>>)
                 \o Millionths(
                      IF x.v[3] - Len(x.v[2]) + 6 >= 0
                      THEN DigitsToNat(x.v[2]) * Pow10(x.v[3] - Len(x.v[2]) + 6)
                      ELSE RoundDiv(DigitsToNat(x.v[2]),
                                    Pow10(Len(x.v[2]) - x.v[3] - 6))))
      [] x.t = "int" ->
            StrV((IF x.v < 0 THEN <<"-">> ELSE <<>>)
                 \o Millionths((IF x.v < 0 THEN 0 - x.v ELSE x.v) * 1000000))
      [] x.t = "bool" -> StrV(Millionths(IF x.v THEN 1000000 ELSE 0))
      [] x.t = "str" -> Raise("ValueError")
      [] OTHER -> Raise("TypeError")

\* How __str__ writes each field, in the order of its if statements:
\*   quoted      f'Name="{v}"'
\*   plain       f"Name={v}"
\*   f6          f"Name={v:.6f}"
\*   blueprints  "BlueprintGeneratedClass'{i}'" for i in v, joined by ','
\*   quotedlist  "'{s}'" for s in v
\*   f6list      "{q:.6f}" for q in v
\*   instances   "{e}" for e in v
Formats(cls) ==
    CASE cls = "ItemEntry" ->
            <<"quoted", "f6", "blueprints", "quotedlist", "f6list", "f6list",
              "f6list", "plain", "f6", "f6", "f6", "f6", "f6", "f6", "f6",
              "plain", "f6", "f6", "f6", "plain">>
      [] cls = "ItemSet" ->
            <<"quoted", "instances", "f6", "f6", "f6", "f6", "plain">>
      [] cls = "ConfigOverrideSupplyCrateItems" ->
            <<"quoted", "plain", "plain", "plain", "plain", "instances",
              "plain", "plain">>

\* ",".join(parts) for parts that were all written; the first exception
\* otherwise
JoinParts(parts) ==
    The({IF c.t = "raise" THEN c
         ELSE StrV(Join([i \in 1..Len(c.v) |-> c.v[i].v], <<",">>)) :
            c \in {Collect(parts)}})

Parenthesised(r) == IF r.t = "raise" THEN r ELSE StrV(<<"(">> \o r.v \o <<")">>)

RECURSIVE Literal(_)
\* one element of a list field
FormatElement(kind, e) ==
    CASE kind = "blueprints" ->
            StrV(<<"BlueprintGeneratedClass", "'">> \o PyStr(e) \o <<"'">>)
      [] kind = "quotedlist" -> StrV(<<"'">> \o PyStr(e) \o <<"'">>)
      [] kind = "f6list" -> Fixed6(e)
      [] kind = "instances" ->
            IF e.t = "ComplexValue" THEN Literal(e) ELSE StrV(PyStr(e))

\* the text after 'Name=' of a field that is not None
FormatField(kind, v) ==
    CASE kind = "quoted" -> StrV(<<"\"">> \o PyStr(v) \o <<"\"">>)
      [] kind = "plain" -> StrV(PyStr(v))
      [] kind = "f6" -> Fixed6(v)
      [] OTHER ->
            The({IF it.exc # "none" THEN Raise(it.exc)
                 ELSE Parenthesised(JoinParts(
                        [i \in 1..Len(it.elems) |-> FormatElement(kind, it.elems[i])])) :
                    it \in {Iterate(v)}})

FieldPart(name, r) == IF r.t = "raise" THEN r ELSE StrV(<<name, "=">> \o r.v)

\* __str__: a part per field that is not None, in the order of the if
\* statements, joined by ',' between parentheses
Literal(x) ==
    The({Parenthesised(JoinParts(
            [j \in 1..Len(set) |->
                FieldPart(x.v[2][set[j]][1],
                          FormatField(Formats(x.v[1])[set[j]], x.v[2][set[j]][2]))])) :
            set \in {SelectSeq([i \in 1..Len(x.v[2]) |-> i],
                               LAMBDA i : x.v[2][i][2] # None)}})

RECURSIVE Reverse(_)
Reverse(s) == IF s = <<>> THEN <<>> ELSE Reverse(Tail(s)) \o <<Head(s)>>

HalfFloat == FloatV(FALSE, <<"5">>, 0)
EntryAB == DictV(<<<<"ItemClassStrings", ListV(<<StrV(<<"A">>), StrV(<<"B">>)>>)>>>>)
WeightedEntry == DictV(<<<<"ItemEntryName", StrV(<<"E">>)>>,
                         <<"EntryWeight", HalfFloat>>,
                         <<"Items", ListV(<<StrV(<<"I">>)>>)>>,
                         <<"MinQuantity", IntV(1)>>,
                         <<"bForceBlueprint", BoolV(FALSE)>>>>)
SetAB == DictV(<<<<"ItemEntries", ListV(<<EntryAB>>)>>>>)
WeightedSet == DictV(<<<<"SetName", StrV(<<"S">>)>>,
                       <<"ItemEntries", ListV(<<WeightedEntry, EntryAB>>)>>,
                       <<"SetWeight", OneFloat>>>>)

\* The values tried for the fields of the mapping; each field may also be
\* left out.
CrateCandidates ==
    <<<<"SupplyCrateClassString", <<StrV(<<"X">>)>>>>,
      <<"MinItemSets", <<IntV(1)>>>>,
      <<"MaxItemSets", <<IntV(2)>>>>,
      <<"NumItemSetsPower", <<OneFloat>>>>,
      <<"bSetsRandomWithoutReplacement", <<BoolV(TRUE)>>>>,
      <<"ItemSets", <<ListV(<<>>), ListV(<<SetAB>>), ListV(<<SetAB, WeightedSet>>)>>>>,
      <<"bAppendItemSets", <<BoolV(FALSE)>>>>,
      <<"bAppendPreventIncreasingMinMaxItemSets", <<BoolV(TRUE)>>>>>>

\* the mapping that holds, for each field, the candidate of the number
\* pick gives, or leaves the field out for 0
CrateMapping(pick) ==
    [j \in 1..Len(SelectSeq([i \in 1..Len(pick) |-> i], LAMBDA i : pick[i] > 0)) |->
        The({<<CrateCandidates[i][1], CrateCandidates[i][2][pick[i]]>> :
               i \in {SelectSeq([i \in 1..Len(pick) |-> i], LAMBDA i : pick[i] > 0)[j]}})]

InitLiteral ==
    /\ \E pick \in [1..Len(CrateCandidates) -> 0..Len(CrateCandidates[6][2])] :
       \E rev \in BOOLEAN :
          /\ \A i \in 1..Len(CrateCandidates) : pick[i] <= Len(CrateCandidates[i][2])
          /\ docs = [kw |-> IF rev THEN Reverse(CrateMapping(pick)) ELSE CrateMapping(pick),
                     inst |-> None, literal |-> None]
    /\ mpc = "mapping"
    /\ heap = <<>> /\ posts = 0
    /\ data = <<>> /\ calls = <<>>
    /\ IdleClassify /\ IdleRead

\* ConfigOverrideSupplyCrateItems.from_dict(kw)
BuildCrate ==
    /\ mpc = "mapping"
    /\ docs' = [docs EXCEPT !.inst = ConfigOverrideSupplyCrateItems_from_dict(docs.kw)]
    /\ mpc' = "instance"
    /\ UNCHANGED <<heap, posts, data, calls, classVars, readVars>>

\* str(inst)
StrCrate ==
    /\ mpc = "instance"
    /\ docs.inst.t # "raise"
    /\ docs' = [docs EXCEPT !.literal = Literal(docs.inst)]
    /\ mpc' = "literal"
    /\ UNCHANGED <<heap, posts, data, calls, classVars, readVars>>

NextLiteral == BuildCrate \/ StrCrate

SpecLiteral == InitLiteral /\ [][NextLiteral]_vars

\* the field names of the claim, in its order
LiteralOrder ==
    <<"SupplyCrateClassString", "MinItemSets", "MaxItemSets", "NumItemSetsPower",
      "bSetsRandomWithoutReplacement", "ItemSets", "bAppendItemSets",
      "bAppendPreventIncreasingMinMaxItemSets">>

\* the parentheses open before position i of a text
Depth(t, i) ==
    Cardinality({k \in 1..(i - 1) : t[k] = "("})
        - Cardinality({k \in 1..(i - 1) : t[k] = ")"})

\* the names written at the top of a literal: the tokens before an '=' that
\* stands inside the outer parentheses only
TopNames(t) ==
    [j \in 1..Len(SelectSeq([i \in 1..Len(t) |-> i],
                            LAMBDA i : t[i] = "=" /\ Depth(t, i) = 1)) |->
        t[SelectSeq([i \in 1..Len(t) |-> i],
                    LAMBDA i : t[i] = "=" /\ Depth(t, i) = 1)[j] - 1]]

Contains(t, u) == \E i \in 0..(Len(t) - Len(u)) : SubSeq(t, i + 1, i + Len(u)) = u
StartsWith(t, u) == Len(u) <= Len(t) /\ SubSeq(t, 1, Len(u)) = u

\* the mapping of the claim's example, in any key order
IsExample(kw) ==
    /\ Len(kw) = 4
    /\ DictHas(kw, "SupplyCrateClassString") /\ DictGet(kw, "SupplyCrateClassString") = StrV(<<"X">>)
    /\ DictHas(kw, "MinItemSets") /\ DictGet(kw, "MinItemSets") = IntV(1)
    /\ DictHas(kw, "MaxItemSets") /\ DictGet(kw, "MaxItemSets") = IntV(2)
    /\ DictHas(kw, "ItemSets") /\ DictGet(kw, "ItemSets") = ListV(<<SetAB>>)

\* C24: the literal of a ConfigOverrideSupplyCrateItems built by from_dict
\* names exactly the fields present in the mapping, in the fixed order,
\* whatever the key order of the mapping; the literal of the example begins
\* (SupplyCrateClassString="X",MinItemSets=1,MaxItemSets=2, and contains
\* ItemSets=((ItemEntries=((ItemClassStrings=('A','B').
C24_LiteralOfPresentFields ==
    mpc = "literal" =>
        /\ docs.literal.t = "str"
        /\ TopNames(docs.literal.v)
              = SelectSeq(LiteralOrder, LAMBDA n : DictHas(docs.kw, n))
        /\ IsExample(docs.kw) =>
              /\ StartsWith(docs.literal.v,
                    <<"(", "SupplyCrateClassString", "=", "\"", "X", "\"", ",",
                      "MinItemSets", "=", "1", ",", "MaxItemSets", "=", "2", ",">>)
              /\ Contains(docs.literal.v,
                    <<"ItemSets", "=", "(", "(", "ItemEntries", "=", "(", "(",
                      "ItemClassStrings", "=", "(", "'", "A", "'", ",", "'", "B",
                      "'", ")">>)

\* the same for the mappings whose ItemSets, when present, is not empty
LiteralOfNonEmptyFields ==
    (mpc = "literal" /\ (DictHas(docs.kw, "ItemSets") => DictGet(docs.kw, "ItemSets").v # <<>>))
        => C24_LiteralOfPresentFields

(***************************************************************************)
(* pull and push (src/_config.py) and backup make (src/_bak.py).  docs     *)
(* holds the call: the function op, the number n of selected servers, the  *)
(* run (make is run twice over the same local directories), the server s   *)
(* and the file f the loops are at, the position pc, the state of the      *)
(* object the variable ftp is bound to, the remote listing, the local      *)
(* directory of each server (file name and modification time) and the log  *)
(* of what was attempted: run, server, attempt, file name and outcome.     *)
(* An FTP command returns ("ok"), is refused by the server ("error"), or   *)
(* finds the connection gone ("lost"); both of the latter raise, and on a  *)
(* lost connection every later command raises as well.                     *)
(***************************************************************************)
EXTENSIONS ==
    <<<<"a", "r", "k">>,
      <<"a", "r", "k", "p", "r", "o", "f", "i", "l", "e">>,
      <<"a", "r", "k", "t", "r", "i", "b", "e">>,
      <<"a", "r", "k", "t", "r", "i", "b", "u", "t", "e", "t", "r", "i", "b", "e">>,
      <<"p", "r", "o", "f", "i", "l", "e", "b", "a", "k">>,
      <<"t", "r", "i", "b", "e", "b", "a", "k">>>>

EndsWith(t, u) == Len(u) <= Len(t) /\ SubSeq(t, Len(t) - Len(u) + 1, Len(t)) = u

\* '$' matches at the end of the text and before a line break that ends it
BeforeEnd(t) ==
    {t} \cup (IF t # <<>> /\ t[Len(t)] = "\n" THEN {SubSeq(t, 1, Len(t) - 1)} ELSE {})

\* EXT_RE.search(filename): \.(?:ark|arkprofile|...)$, IGNORECASE
EXT_RE(filename) ==
    \E t \in BeforeEnd(LowerStr(filename)) : \E i \in 1..Len(EXTENSIONS) :
        EndsWith(t, <<".">> \o EXTENSIONS[i])

\* \w
WordChar(c) ==
    c = "_" \/ c \in Digit \/ \E i \in 1..Len(LowerSeq) : c \in {UpperSeq[i], LowerSeq[i]}

\* LAST_SAVE_RE.match(filename): ^\w+(?:_P)?\.ark$, IGNORECASE
LAST_SAVE_RE(filename) ==
    \E t \in BeforeEnd(LowerStr(filename)) :
        /\ EndsWith(t, <<".", "a", "r", "k">>)
        /\ Len(t) > Len(<<".", "a", "r", "k">>)
        /\ \A i \in 1..(Len(t) - Len(<<".", "a", "r", "k">>)) : WordChar(filename[i])

\* the days of 2024 before each month
DaysBefore == <<0, 31, 60, 91, 121, 152, 182, 213, 244, 274, 305, 335>>

\* datetime.strptime(facts["modify"][:14], "%Y%m%d%H%M%S").timestamp() for a
\* time of the year 2024, in seconds from the beginning of that year (the
\* local time zone keeps one offset)
get_mtime_from_facts(modify) ==
    (((DaysBefore[DigitsToNat(SubSeq(modify, 5, 6))]
         + DigitsToNat(SubSeq(modify, 7, 8)) - 1) * 24
        + DigitsToNat(SubSeq(modify, 9, 10))) * 60
       + DigitsToNat(SubSeq(modify, 11, 12))) * 60
      + DigitsToNat(SubSeq(modify, 13, 14))

Abs(x) == IF x < 0 THEN 0 - x ELSE x

should_fetch_AtLeast(local, filename, modify) ==
    IF ~EXT_RE(filename) THEN FALSE
    ELSE IF ~DictHas(local, filename) THEN TRUE
    ELSE IF LAST_SAVE_RE(filename)
    THEN Abs(DictGet(local, filename) - get_mtime_from_facts(modify)) >= 120
    ELSE FALSE

\* should_fetch; local is the directory the '.gz' copies are kept in
should_fetch(local, filename, modify) ==
    IF ~EXT_RE(filename) THEN FALSE
    ELSE IF ~DictHas(local, filename) THEN TRUE
    ELSE IF LAST_SAVE_RE(filename)
    THEN Abs(DictGet(local, filename) - get_mtime_from_facts(modify)) > 120
    ELSE FALSE

\* a file written, and os.utime(local_gz_file, (mtime, mtime))
Utime(local, filename, mtime) ==
    IF DictHas(local, filename)
    THEN [i \in 1..Len(local) |->
            IF local[i][1] = filename THEN <<filename, mtime>> ELSE local[i]]
    ELSE Append(local, <<filename, mtime>>)

\* the file names of REMOTE_FILES
REMOTE_FILES == <<<<"Game.ini">>, <<"GameUserSettings.ini">>>>

NameArk == <<"a", ".", "a", "r", "k">>
NameUpper == <<"A", "_", "P", ".", "A", "R", "K">>
NameDated == <<"a", ".", "b", ".", "a", "r", "k">>
NameProfile == <<"p", ".", "a", "r", "k", "p", "r", "o", "f", "i", "l", "e">>
NameTxt == <<"a", "r", "k", ".", "t", "x", "t">>
NameMenu == <<NameArk, NameUpper, NameDated, NameProfile, NameTxt>>

\* modify facts: the time of the local copies, then 120 seconds later (with
\* a fraction), 121 seconds later and 121 seconds earlier
Noon == <<"2", "0", "2", "4", "0", "1", "0", "1", "1", "2", "0", "0", "0", "0">>
ModifyMenu ==
    {Noon,
     <<"2", "0", "2", "4", "0", "1", "0", "1", "1", "2", "0", "2", "0", "0", ".", "5">>,
     <<"2", "0", "2", "4", "0", "1", "0", "1", "1", "2", "0", "2", "0", "1">>,
     <<"2", "0", "2", "4", "0", "1", "0", "1", "1", "1", "5", "7", "5", "9">>}

Ops == {"pull", "push", "make"}

\* the call begins
Call(op, n, runs, listing, local) ==
    [op |-> op, n |-> n, runs |-> runs, run |-> 1, s |-> 1,
     pc |-> IF n = 0 THEN "done" ELSE "connect", ftp |-> "unbound",
     listing |-> listing, f |-> 1, local |-> [k \in 1..n |-> local], log |-> <<>>]

\* what a command sent over the connection may do
Outcomes(d) == IF d.ftp = "up" THEN {"ok", "error", "lost"} ELSE {"lost"}

Step(d, kind, name, out) ==
    [d EXCEPT !.log = Append(@, <<d.run, d.s, kind, name, out>>),
              !.ftp = IF out = "lost" THEN "lost" ELSE @]

\* for server in get_servers(args.servers): the next server, or the end
NextServerOf(d) ==
    IF d.s < d.n THEN [d EXCEPT !.s = @ + 1, !.pc = "connect"]
    ELSE [d EXCEPT !.pc = "done"]

\* make: finally: try: ftp.quit() except Exception: pass
QuitQuietly(d) == [d EXCEPT !.ftp = IF @ = "unbound" THEN @ ELSE "closed"]

\* make: except Exception as e: print(...); continue, through finally
OuterExcept(d) == NextServerOf(QuitQuietly(d))

\* ftplib.FTP(host, user, password) returned or raised
AfterConnect(d, out) ==
    IF out = "ok" THEN [d EXCEPT !.ftp = "up", !.pc = "cwd"]
    ELSE IF d.op = "make" THEN OuterExcept(d)
    ELSE NextServerOf(d)

\* for filename ...: the loop begins, or has nothing to go through
FirstFile(d) ==
    IF d.listing = <<>> THEN [d EXCEPT !.pc = "quit"] ELSE [d EXCEPT !.pc = "file", !.f = 1]

\* ftp.cwd(remote_dir) returned or raised
AfterCwd(d, out) ==
    IF out = "ok" THEN (IF d.op = "make" THEN [d EXCEPT !.pc = "list"] ELSE FirstFile(d))
    ELSE IF d.op = "make" THEN OuterExcept(d)
    ELSE [d EXCEPT !.pc = "quit"]

\* files = ftp_mlsd_list(ftp) returned or raised
AfterList(d, out) == IF out = "ok" THEN FirstFile(d) ELSE OuterExcept(d)

NextFile(d) ==
    IF d.f < Len(d.listing) THEN [d EXCEPT !.f = @ + 1] ELSE [d EXCEPT !.pc = "quit"]

\* whether the body of the loop over the files sends a command for file f
Transfers(d) ==
    CASE d.op = "pull" -> TRUE
      [] d.op = "push" -> DictHas(d.local[d.s], d.listing[d.f].name)
      [] d.op = "make" -> should_fetch(d.local[d.s], d.listing[d.f].name,
                                       d.listing[d.f].modify)

\* one pass of the loop over the files: the file is skipped, or the
\* transfer returned or raised; pull opens the local file before the
\* transfer, make writes it after
AfterFile(d, out) ==
    IF out = "none" THEN NextFile(Step(d, "skip", d.listing[d.f].name, out))
    ELSE NextFile(
           [Step(d, IF d.op = "push" THEN "stor" ELSE "retr", d.listing[d.f].name, out)
              EXCEPT !.local[d.s] =
                 IF d.op = "pull" THEN Utime(@, d.listing[d.f].name, 0)
                 ELSE IF d.op = "make" /\ out = "ok"
                 THEN Utime(@, d.listing[d.f].name,
                            get_mtime_from_facts(d.listing[d.f].modify))
                 ELSE @])

\* pull, push: ftp.quit() returned or raised
AfterQuit(d, out) ==
    IF d.op = "make" THEN OuterExcept(d)
    ELSE IF out = "ok" THEN NextServerOf([d EXCEPT !.ftp = "closed"])
    ELSE [d EXCEPT !.pc = "raised"]

\* make over one server, twice: up to MaxFiles of the names, all with one
\* modify fact, some of them with a local copy of noon
InitBackup ==
    /\ \E pick \in [1..Len(NameMenu) -> BOOLEAN] : \E have \in [1..Len(NameMenu) -> BOOLEAN] :
       \E modify \in ModifyMenu :
          /\ Cardinality({i \in 1..Len(NameMenu) : pick[i]}) <= MaxFiles
          /\ \A i \in 1..Len(NameMenu) : have[i] => pick[i]
          /\ docs = Call("make", 1, 2,
                         [j \in 1..Len(SelectSeq([i \in 1..Len(NameMenu) |-> i],
                                                 LAMBDA i : pick[i])) |->
                            [name |-> NameMenu[SelectSeq([i \in 1..Len(NameMenu) |-> i],
                                                           LAMBDA i : pick[i])[j]],
                             modify |-> modify]],
                         [j \in 1..Len(SelectSeq([i \in 1..Len(NameMenu) |-> i],
                                                 LAMBDA i : have[i])) |->
                            <<NameMenu[SelectSeq([i \in 1..Len(NameMenu) |-> i],
                                                 LAMBDA i : have[i])[j]],
                              get_mtime_from_facts(Noon)>>])
    /\ mpc = "ftp"
    /\ heap = <<>> /\ posts = 0
    /\ data = <<>> /\ calls = <<>>
    /\ IdleClassify /\ IdleRead

\* pull, push or make over 0..MaxServers servers: push with some of the
\* local files, make with two new files in the remote directory
InitTransfer ==
    /\ \E op \in Ops : \E n \in 0..MaxServers : \E have \in SUBSET {1, 2} :
          /\ op # "push" => have = {}
          /\ docs = Call(op, n, 1,
                         IF op = "make"
                         THEN <<[name |-> NameArk, modify |-> Noon],
                                [name |-> NameProfile, modify |-> Noon]>>
                         ELSE [i \in 1..Len(REMOTE_FILES) |->
                                 [name |-> REMOTE_FILES[i], modify |-> Noon]],
                         [j \in 1..Cardinality(have) |->
                            <<REMOTE_FILES[IF 1 \in have /\ j = 1 THEN 1 ELSE 2], 0>>])
    /\ mpc = "ftp"
    /\ heap = <<>> /\ posts = 0
    /\ data = <<>> /\ calls = <<>>
    /\ IdleClassify /\ IdleRead

FtpConnect ==
    /\ mpc = "ftp"
    /\ docs.pc = "connect"
    /\ \E out \in {"ok", "error"} :
          docs' = AfterConnect(Step(docs, "connect", <<>>, out), out)
    /\ UNCHANGED <<mpc, heap, posts, data, calls, classVars, readVars>>

FtpCwd ==
    /\ mpc = "ftp"
    /\ docs.pc = "cwd"
    /\ \E out \in Outcomes(docs) : docs' = AfterCwd(Step(docs, "cwd", <<>>, out), out)
    /\ UNCHANGED <<mpc, heap, posts, data, calls, classVars, readVars>>

MlsdList ==
    /\ mpc = "ftp"
    /\ docs.pc = "list"
    /\ \E out \in Outcomes(docs) : docs' = AfterList(Step(docs, "mlsd", <<>>, out), out)
    /\ UNCHANGED <<mpc, heap, posts, data, calls, classVars, readVars>>

TransferFile ==
    /\ mpc = "ftp"
    /\ docs.pc = "file"
    /\ \E out \in (IF Transfers(docs) THEN Outcomes(docs) ELSE {"none"}) :
          docs' = AfterFile(docs, out)
    /\ UNCHANGED <<mpc, heap, posts, data, calls, classVars, readVars>>

FtpQuit ==
    /\ mpc = "ftp"
    /\ docs.pc = "quit"
    /\ \E out \in (IF docs.ftp = "up" THEN {"ok", "lost"} ELSE {"lost"}) :
          docs' = AfterQuit(Step(docs, "quit", <<>>, out), out)
    /\ UNCHANGED <<mpc, heap, posts, data, calls, classVars, readVars>>

\* the command is given again
Rerun ==
    /\ mpc = "ftp"
    /\ docs.pc = "done"
    /\ docs.run < docs.runs
    /\ docs' = [docs EXCEPT !.run = @ + 1, !.s = 1, !.f = 1, !.ftp = "unbound",
                            !.pc = IF docs.n = 0 THEN "done" ELSE "connect"]
    /\ UNCHANGED <<mpc, heap, posts, data, calls, classVars, readVars>>

NextTransfer == FtpConnect \/ FtpCwd \/ MlsdList \/ TransferFile \/ FtpQuit

SpecTransfer == InitTransfer /\ [][NextTransfer]_vars

NextBackup == FtpConnect \/ FtpCwd \/ MlsdList \/ TransferFile \/ FtpQuit \/ Rerun

SpecBackup == InitBackup /\ [][NextBackup]_vars

\* the names of the menu that end in a save-file extension, and those of
\* them that are word characters followed by '.ark'
SaveNames == {NameArk, NameUpper, NameDated, NameProfile}
LastSaveNames == {NameArk, NameUpper}

\* the condition of the claim for a download
Stale(local, name, modify) ==
    /\ name \in SaveNames
    /\ \/ ~DictHas(local, name)
       \/ /\ name \in LastSaveNames
          /\ \/ DictGet(local, name) - get_mtime_from_facts(modify) > 120
             \/ get_mtime_from_facts(modify) - DictGet(local, name) > 120

\* C29: make downloads a file of the listing exactly when its name has a
\* save-file extension and either it has no local copy or it is a last save
\* whose local and remote modification times are more than 120 seconds
\* apart; a download that succeeded leaves the local copy with the remote
\* time; a file that is not a last save is not downloaded when it has a
\* local copy; and the second run over the same listing downloads a file
\* only when the first run failed somewhere and did not download that file.
C29_FetchIffStale ==
    [][(mpc = "ftp" /\ docs.op = "make" /\ docs.pc = "file") =>
          \A e \in {docs'.log[Len(docs'.log)]} : \A name \in {docs.listing[docs.f].name} :
             /\ Len(docs'.log) = Len(docs.log) + 1
             /\ e[4] = name
             /\ e[3] \in {"retr", "skip"}
             /\ e[3] = "retr" <=>
                   Stale(docs.local[docs.s], name, docs.listing[docs.f].modify)
             /\ (e[3] = "retr" /\ e[5] = "ok") =>
                   /\ DictHas(docs'.local[docs.s], name)
                   /\ DictGet(docs'.local[docs.s], name)
                         = get_mtime_from_facts(docs.listing[docs.f].modify)
             /\ (e[3] = "retr" /\ name \notin LastSaveNames) =>
                   ~DictHas(docs.local[docs.s], name)
             /\ (e[3] = "retr" /\ docs.run > 1) =>
                   /\ \A k \in 1..Len(docs.log) :
                         docs.log[k] # <<1, docs.s, "retr", name, "ok">>
                   /\ \E k \in 1..Len(docs.log) :
                         docs.log[k][1] = 1 /\ docs.log[k][5] \notin {"ok", "none"}]_vars

\* the first run replaced the copy of a last save that was 121 seconds old
\* and skipped a dated save that had a copy; the second run skipped both
C29_Witness ==
    /\ mpc = "ftp"
    /\ docs.op = "make"
    /\ docs.run = 2
    /\ docs.pc = "done"
    /\ Len(docs.listing) = 2
    /\ docs.local[1] = <<<<NameArk, get_mtime_from_facts(Noon) + 121>>,
                         <<NameDated, get_mtime_from_facts(Noon)>>>>
    /\ \E i, j, k, l \in 1..Len(docs.log) :
          /\ i < j /\ j < k /\ k < l
          /\ docs.log[i] = <<1, 1, "retr", NameArk, "ok">>
          /\ docs.log[j] = <<1, 1, "skip", NameDated, "none">>
          /\ docs.log[k] = <<2, 1, "skip", NameArk, "none">>
          /\ docs.log[l] = <<2, 1, "skip", NameDated, "none">>

\* the servers a connection was attempted to, in the order of the attempts
ConnectedTo ==
    [j \in 1..Len(SelectSeq(docs.log, LAMBDA e : e[3] = "connect")) |->
        SelectSeq(docs.log, LAMBDA e : e[3] = "connect")[j][2]]

\* the loop is through with server k
Through(k) == docs.s > k \/ docs.pc \in {"quit", "done", "raised"}

\* the connection to server k and the change of directory went through
\* (and, for make, the listing)
Entered(k) ==
    /\ \E e \in 1..Len(docs.log) : docs.log[e] = <<docs.run, k, "cwd", <<>>, "ok">>
    /\ docs.op = "make" =>
          \E e \in 1..Len(docs.log) : docs.log[e] = <<docs.run, k, "mlsd", <<>>, "ok">>

\* C30: pull, push and make attempt the servers in list order and end only
\* with every server attempted; and on a server whose directory was
\* entered every file is gone through, whatever happened to the files
\* before it.
C30_EveryServerAttempted ==
    mpc = "ftp" =>
        /\ ConnectedTo = [j \in 1..Len(ConnectedTo) |-> j]
        /\ docs.pc \in {"done", "raised"} => Len(ConnectedTo) = docs.n
        /\ \A k \in 1..docs.n :
              (Through(k) /\ Entered(k)) =>
                 \A i \in 1..Len(docs.listing) :
                    \E e \in 1..Len(docs.log) :
                       /\ docs.log[e][2] = k
                       /\ docs.log[e][3] \in {"retr", "stor", "skip"}
                       /\ docs.log[e][4] = docs.listing[i].name

\* the same of make alone, whose every ftp.quit() is inside a try
MakeAttemptsEveryServer == (mpc = "ftp" /\ docs.op = "make") => C30_EveryServerAttempted

\* pull and push have ended in an exception only through ftp.quit()
RaisedOnlyByQuit ==
    (mpc = "ftp" /\ docs.pc = "raised") =>
        /\ docs.op \in {"pull", "push"}
        /\ docs.log[Len(docs.log)][3] = "quit"
        /\ docs.log[Len(docs.log)][5] = "lost"


====
